---- MODULE Spec2Model ----
(***************************************************************************)
(* Event-loop and cross-thread coordination core of walk                   *)
(* (src/application.go, src/form.go): the top-level message loop, nested   *)
(* modal loops, Synchronize, Exit and the owner thread's message queue.    *)
(***************************************************************************)
EXTENDS Integers, Sequences, FiniteSets, TLC

\* ---------------------------------------------------------------- bounds
MaxFuncs == 2
MaxEvents == 1
MaxExitCalls == 2
MaxNestedRuns == 1
MaxGlobalHooks == 2
MaxHookFaults == 1
MaxCallbackDepth == 2
MaxCallbackReturns == 2
MaxRequests == 3
IdCapacity == 14
MaxInitCalls == 2
MaxAppCalls == 2
MaxAllocCalls == 2
MaxGoCalls == 2
MaxModalMsgs == 2
MaxLockCalls == 3
MaxMoves == 2

\* ---------------------------------------------------------------- universe
Owner == "ui"
Workers == {"t1", "t2"}
Threads == {Owner} \cup Workers
Modals == {"m1", "m2"}
Windows == {"w1"}
NoWindow == "nil"
NoModal == "none"

\* A Go int of a 64-bit build is kept as the pair (hi, lo) with
\* value = hi * 2^32 + lo, where lo is the signed low 32-bit word.
ExitCodes == { [hi |-> 0, lo |-> 3], [hi |-> 1, lo |-> 5] }

\* int32(exitCode): the conversion keeps the low word only.
ToInt32(c) == c.lo

\* int(msg.WParam): the quit signal's 32-bit code widened back to an int.
IntFromWParam(w) == [hi |-> 0, lo |-> w]

NoCode == [hi |-> 0, lo |-> 0]

VARIABLES
    exiting,            \* app.exiting
    ctxCancelled,       \* app.ctx has been cancelled
    syncFuncs,          \* app.syncFuncs
    activeMessageLoops, \* app.activeMessageLoops
    postedQ,            \* posted-message queue of the owner thread
    quitPending,        \* the queue's quit flag set by PostQuitMessage
    quitCode,           \* the exit code the quit flag carries (int32)
    enabled,            \* enabled state of the owner windows
    forms,              \* state of every modal form
    stack,              \* loops active on the owner thread, outermost first
    crashed,            \* a fault left the owner thread for good
    inflight,           \* per thread: the callable enqueued and not yet posted
    runState,           \* Run: "notrun", "running", "returned", "faulted"
    runResult,          \* value returned by Run
    \* history
    submitted,          \* callables in the order they were enqueued
    ran,                \* executed callables, with the executing thread
    postedFns,          \* ids of callables whose wakeup has been posted
    cleanFns,           \* ... posted while no other Synchronize was in flight
    quitPosts,          \* every PostQuitMessage call: thread, code, origin
    firstExit,          \* the Exit call that won the flag
    exitCalls,          \* number of Exit calls made
    nextFn,             \* callables created so far
    nextEvent,          \* input events posted so far
    overtaken,          \* callables posted before an event that was handled first
    respected,          \* callables posted before an event and run before it
    nestedRunFaults     \* faults of Run entered while a loop was active

VARIABLES
    globalPreTranslateHandlers,     \* app.globalPreTranslateHandlers
    perWindowPreTranslateHandlers,  \* app.perWindowPreTranslateHandlers
    lastMsg,                        \* the message pumped last and the hooks it was offered to
    hookFaults                      \* faults of AddPreTranslateHandlerForHWND

VARIABLES
    cbStack,        \* native callbacks in progress on the owner thread, outermost first
    cbState,        \* the owner thread's context: "running", "blocked", "dead"
    redirected,     \* faults re-raised on contexts of their own: value and stack
    nativeUnwound,  \* callbacks out of which a fault went into the native caller
    cbReturns       \* callbacks that have returned normally

VARIABLES
    lpState,              \* per form: the layout performer's state
    lpPending,            \* per form: the latest request not picked up yet (0: none)
    lpWork,               \* per form: the request computed or delivered (0: none)
    inSizingLoop,         \* per form: fb.inSizingLoop
    ownerWaits,           \* the owner thread blocked on <-fb.layoutResults
    layoutResultsByForm,  \* app.layoutResultsByForm (0: no entry)
    layoutPosting,        \* forms whose result is stored and not yet announced
    layoutMsgs,           \* syncLayoutMsg messages posted and not yet handled
    layoutBatch,          \* runSyncLayout: the results taken off the map
    layoutPhase,          \* runSyncLayout: "idle", "apply", "complete"
    layoutIdx,            \* runSyncLayout: position in the batch
    \* history
    lrequests,            \* every layout request: form, made in the sizing loop
    appliedLog,           \* results applied: id, how, and the request waited for
    completedLog,         \* results whose completion functions were called
    supersededPending,    \* requests replaced before they were picked up
    abandoned,            \* requests replaced while they were computed
    pickedUp,             \* requests the performer began to compute
    handed,               \* results handed to synchronizeLayout
    replacedResults       \* results overwritten in the map before a drain

layoutVars == <<lpState, lpPending, lpWork, inSizingLoop, ownerWaits, layoutResultsByForm,
                layoutPosting, layoutMsgs, layoutBatch, layoutPhase, layoutIdx, lrequests,
                appliedLog, completedLog, supersededPending, abandoned, pickedUp, handed,
                replacedResults>>

VARIABLES
    allocated,            \* fb.ctrlIDs: the ids the allocator has given out
    buttons,              \* the push buttons created
    ctrlID,               \* per push button: its control id (0: none)
    usesPredefinedID,     \* per push button: pb.usesPredefinedID
    ctrlPanic,            \* allocCtrlID panicked on an allocator error
    freeFault             \* an id that was not allocated was given to Free

idVars == <<allocated, buttons, ctrlID, usesPredefinedID, ctrlPanic, freeFault>>

VARIABLES
    nextMsg,              \* app.nextMsg
    syncFuncMsg,          \* app.syncFuncMsg
    syncLayoutMsg,        \* app.syncLayoutMsg
    cloakChangeMsg,       \* app.cloakChangeMsg
    lastAlloc             \* what the latest AllocMessage call of a caller returned

msgVars == <<nextMsg, syncFuncMsg, syncLayoutMsg, cloakChangeMsg, lastAlloc>>

VARIABLES
    uiFault,              \* the latest AssertUIThread panic: who called which entry point
    runMsgFilters         \* app.runMsgFilters

thrVars == <<uiFault, runMsgFilters>>

VARIABLES
    onceInit,             \* appOnce.init
    initCall,             \* per thread: where its InitApp call is
    appState,             \* how far appSingleton has been initialized
    initBodyRuns,         \* how often Application.init has been entered
    walkInit,             \* app.walkInit
    walkInits,            \* the list captured by finalInitOutsideOnce
    walkInitRan,          \* the registered functions that have run, in order
    appended,             \* the functions AppendToWalkInit accepted, in order
    rejected,             \* the functions whose AppendToWalkInit panicked
    initLog,              \* what each finished InitApp call gave
    appLog                \* what each App call gave

initVars == <<onceInit, initCall, appState, initBodyRuns, walkInit, walkInits,
              walkInitRan, appended, rejected, initLog, appLog>>

VARIABLES
    waitGroup,            \* counter of app.waitGroup
    goCalls,              \* per Go call: where it is, and whether an Exit call had returned
    exitPc,               \* per thread: where its Exit call is
    exitReturned,         \* some Exit call has returned
    quitSync              \* postQuitMsg handed to Synchronize and not yet run

goVars == <<waitGroup, goCalls, exitPc, exitReturned, quitSync>>

cbVars == <<cbStack, cbState, redirected, nativeUnwound, cbReturns>>

hookVars == <<globalPreTranslateHandlers, perWindowPreTranslateHandlers, lastMsg, hookFaults>>

\* State outside the loops, Exit and Synchronize.
\* RunModal for a DialogEx, statement by statement: where the call is, the
\* dialog and its owner window, the owner thread's message queue, and what
\* the loop did with the message it handled last.
VARIABLES
    modalPc, started, isModal, dlgWnd, ownerWnd, ownerWas, deferred,
    msgQ, sentClose, wmQuit, curDest, modalMsg, exitBy, quitReposts, injected

modalVars == <<modalPc, started, isModal, dlgWnd, ownerWnd, ownerWas, deferred,
               msgQ, sentClose, wmQuit, curDest, modalMsg, exitBy, quitReposts, injected>>

\* The two locks of the bridge and the calls that take them: who holds
\* syncFuncsMutex and syncLayoutMutex, where each thread is in Synchronize or
\* synchronizeLayout, where the owner thread is in runSyncFunc or
\* runSyncLayout, the two queues, and the wakeups posted.
VARIABLES
    mutex, callPc, drainPc, lkFuncs, lkResult, lkCur, lkMsgs, drains, lkItems, lkRan

lockVars == <<mutex, callPc, drainPc, lkFuncs, lkResult, lkCur, lkMsgs, drains, lkItems,
              lkRan>>

\* MinWin: the WINDOWPOS structures WM_WINDOWPOSCHANGED came with and the
\* Points published to the handlers of Moved.
VARIABLES
    windowPos, movePublished

posVars == <<windowPos, movePublished>>

extVars == <<modalVars, lockVars, posVars>>

appVars == <<msgVars, thrVars, initVars, goVars, extVars>>

auxVars == <<hookVars, cbVars, layoutVars, idVars, appVars>>

progVars == <<exiting, ctxCancelled, syncFuncs, activeMessageLoops, postedQ,
              quitPending, quitCode, enabled, forms, stack, crashed, inflight,
              runState, runResult>>
histVars == <<submitted, ran, postedFns, cleanFns, quitPosts, firstExit,
              exitCalls, nextFn, nextEvent, overtaken, respected, nestedRunFaults>>
vars == <<progVars, histVars, auxVars>>

exitVars == <<exiting, ctxCancelled, firstExit, exitCalls>>
syncVars == <<syncFuncs, inflight, submitted, nextFn>>
quitVars == <<quitPending, quitCode, quitPosts>>
loopVars == <<activeMessageLoops, stack, enabled, forms>>
evVars == <<nextEvent, overtaken, respected>>

\* A form after construction: its window exists, it has not been started.
\* ---------------------------------------------------------------- hooks: data
Hooks == {"h1", "h2"}
NilHook == "nilhook"
Hwnds == {"hA", "hB"}
NoHwnd == "h0"

\* The windows windowFromHandle knows that implement PreTranslateHandler
\* themselves (a form does: FormBase.OnPreTranslate).
WindowsWithHook == {"hA"}
SelfHook == "self"

\* The windows that implement PostDispatchHandler.
WindowsWithPostDispatch == {"hA"}

NoMsg == [dest |-> NoHwnd, globals |-> <<>>, keys |-> {}, offers |-> <<>>, consumed |-> FALSE,
          pumped |-> FALSE, handled |-> {}, dispatched |-> 0, postDispatch |-> <<>>]

HooksInit ==
    /\ globalPreTranslateHandlers = <<>>
    /\ perWindowPreTranslateHandlers = [w \in Hwnds |-> NilHook]
    /\ lastMsg = NoMsg
    /\ hookFaults = 0

\* ---------------------------------------------------------------- callbacks: data
\* The functions the windowing system calls back into.
NativeCallbacks == {"appMsgWndProc", "appWinEventProc", "dialogExProc", "minWinProc"}

\* Those that defer HandlePanicFromNativeCallback on entry.
Wrapped == {"appMsgWndProc", "dialogExProc", "minWinProc"}

Faults == {"x1", "x2"}
NoFault == "nofault"

CallbacksInit ==
    /\ cbStack = <<>>
    /\ cbState = "running"
    /\ redirected = <<>>
    /\ nativeUnwound = {}
    /\ cbReturns = 0

\* ---------------------------------------------------------------- layout: data
LForms == {"F1", "F2"}
NoWait == [form |-> "none", req |-> 0]

LayoutInit ==
    /\ lpState = [f \in LForms |-> "Idle"]
    /\ lpPending = [f \in LForms |-> 0]
    /\ lpWork = [f \in LForms |-> 0]
    /\ inSizingLoop = [f \in LForms |-> FALSE]
    /\ ownerWaits = NoWait
    /\ layoutResultsByForm = [f \in LForms |-> 0]
    /\ layoutPosting = {}
    /\ layoutMsgs = 0
    /\ layoutBatch = <<>>
    /\ layoutPhase = "idle"
    /\ layoutIdx = 0
    /\ lrequests = <<>>
    /\ appliedLog = <<>>
    /\ completedLog = <<>>
    /\ supersededPending = {}
    /\ abandoned = {}
    /\ pickedUp = {}
    /\ handed = {}
    /\ replacedResults = {}

\* ---------------------------------------------------------------- control ids: data
maxPredefinedCtrlID == 11

Ids == 0..(IdCapacity - 1)
Controls == {"pb1", "pb2", "pb3"}
PredefinedIDs == {1, 2}
ToUint16(id) == id % 65536

\* makeControlIDAllocator: a fresh allocator from which the predefined ids have
\* been taken.
IdsInit ==
    /\ allocated = 0..maxPredefinedCtrlID
    /\ buttons = {}
    /\ ctrlID = [c \in Controls |-> 0]
    /\ usesPredefinedID = [c \in Controls |-> FALSE]
    /\ ctrlPanic = FALSE
    /\ freeFault = FALSE

\* ---------------------------------------------------------------- application: data
WM_NULL == 0
WM_APP == 32768
firstRegisteredMessage == 49152

WalkFns == {"f1", "f2", "f3"}
NoAlloc == [code |-> WM_NULL, err |-> FALSE]

\* The package-level appSingleton and appOnce before InitApp: zero values.
AppInit ==
    /\ nextMsg = 0
    /\ syncFuncMsg = 0
    /\ syncLayoutMsg = 0
    /\ cloakChangeMsg = 0
    /\ lastAlloc = NoAlloc
    /\ uiFault = [by |-> "none", entry |-> "none"]
    /\ runMsgFilters = FALSE
    /\ onceInit = 0
    /\ initCall = [t \in Threads |-> "idle"]
    /\ appState = "zero"
    /\ initBodyRuns = 0
    /\ walkInit = <<>>
    /\ walkInits = <<>>
    /\ walkInitRan = <<>>
    /\ appended = <<>>
    /\ rejected = {}
    /\ initLog = <<>>
    /\ appLog = <<>>
    /\ waitGroup = 0
    /\ goCalls = [i \in 1..MaxGoCalls |-> [pc |-> "unused", late |-> FALSE]]
    /\ exitPc = [t \in Threads |-> "idle"]
    /\ exitReturned = FALSE
    /\ quitSync = FALSE

\* The window handle of the dialog and the dialog as a pre-translate handler.
DlgHwnd == "hB"
DlgHook == "dlg"

NoModalMsg == [dest |-> NoHwnd, handled |-> FALSE, filtered |-> FALSE, offers |-> <<>>,
               consumed |-> FALSE, dispatched |-> 0, postDispatch |-> <<>>,
               running |-> TRUE]

ModalInit ==
    /\ modalPc = "idle"
    /\ started = FALSE
    /\ isModal = FALSE
    /\ dlgWnd = "none"
    /\ ownerWnd = "none"
    /\ ownerWas = "none"
    /\ deferred = <<>>
    /\ msgQ = <<>>
    /\ sentClose = FALSE
    /\ wmQuit = FALSE
    /\ curDest = NoHwnd
    /\ modalMsg = NoModalMsg
    /\ exitBy = "none"
    /\ quitReposts = 0
    /\ injected = 0

Locks == {"funcs", "layout"}
NoHolder == "nobody"
LockThreads == {Owner, "t1"}
NoCall == [pc |-> "idle", lock |-> "funcs"]
NoDrain == [pc |-> "idle", lock |-> "funcs"]

LocksInit ==
    /\ mutex = [l \in Locks |-> NoHolder]
    /\ callPc = [t \in LockThreads |-> NoCall]
    /\ drainPc = NoDrain
    /\ lkFuncs = <<>>
    /\ lkResult = 0
    /\ lkCur = 0
    /\ lkMsgs = [l \in Locks |-> 0]
    /\ drains = 0
    /\ lkItems = <<>>
    /\ lkRan = <<>>

MovedInit ==
    /\ windowPos = <<>>
    /\ movePublished = <<>>

ExtInit == ModalInit /\ LocksInit /\ MovedInit

AuxInit == HooksInit /\ CallbacksInit /\ LayoutInit /\ IdsInit /\ AppInit /\ ExtInit

NewForm == [phase |-> "new", how |-> "none", owner |-> NoWindow,
            started |-> FALSE, hWnd |-> TRUE,
            destroyed |-> 0, quitSent |-> 0, disposeCalls |-> 0,
            closePosted |-> FALSE]

Init ==
    /\ exiting = FALSE
    /\ ctxCancelled = FALSE
    /\ syncFuncs = <<>>
    /\ activeMessageLoops = 0
    /\ postedQ = <<>>
    /\ quitPending = FALSE
    /\ quitCode = 0
    /\ enabled = [w \in Windows |-> TRUE]
    /\ forms = [m \in Modals |-> NewForm]
    /\ stack = <<>>
    /\ crashed = FALSE
    /\ inflight = [t \in Threads |-> 0]
    /\ runState = "notrun"
    /\ runResult = NoCode
    /\ submitted = <<>>
    /\ ran = <<>>
    /\ postedFns = {}
    /\ cleanFns = {}
    /\ quitPosts = <<>>
    /\ firstExit = [by |-> "none", code |-> NoCode]
    /\ exitCalls = 0
    /\ nextFn = 0
    /\ nextEvent = 0
    /\ overtaken = {}
    /\ respected = {}
    /\ nestedRunFaults = 0
    /\ AuxInit

\* ---------------------------------------------------------------- helpers
Top == stack[Len(stack)]

IsUIThread(t) == t = Owner

RanIds == { ran[i].id : i \in 1..Len(ran) }

\* Number of callables submitted through Synchronize itself so far.
NumFns == Cardinality({ i \in 1..Len(submitted) : submitted[i].kind = "fn" })

\* FormBase.Running
Running(m) == forms[m].started

\* The owner thread is inside a loop and about to fetch its next message.
CanFetch ==
    /\ stack # <<>>
    /\ ~crashed
    /\ inflight[Owner] = 0
    /\ (Top.kind = "modal" => Running(Top.modal))

\* The loop is running with nothing to do: blocked waiting for a message.
LoopIdle ==
    /\ CanFetch
    /\ postedQ = <<>>
    /\ ~quitPending
    /\ syncFuncs = <<>>
    /\ \A t \in Threads : inflight[t] = 0


\* ---------------------------------------------------------------- messages
SyncMsg == [kind |-> "sync", id |-> 0, modal |-> NoModal, before |-> {}]

\* A posted event remembers the callables whose wakeup was posted before it
\* and that had not run yet.
EventMsg(id) == [kind |-> "event", id |-> id, modal |-> NoModal,
                 before |-> postedFns \ RanIds]

CloseMsg(m) == [kind |-> "close", id |-> 0, modal |-> m, before |-> {}]

\* ---------------------------------------------------------------- the bridge
\* Id of the callable thread t enqueued last (0: none yet).
PrevBy(t) ==
    LET mine == { submitted[i].id : i \in { j \in 1..Len(submitted) : submitted[j].by = t } }
    IN  IF mine = {} THEN 0 ELSE CHOOSE x \in mine : \A y \in mine : y <= x

\* Synchronize, up to the release of syncFuncsMutex: fn is appended to syncFuncs.
Synchronize(t, kind, code) ==
    LET fn == [id |-> nextFn + 1, kind |-> kind, code |-> code, by |-> t,
               idle |-> LoopIdle, prev |-> PrevBy(t)]
    IN  /\ inflight[t] = 0
        /\ nextFn' = nextFn + 1
        /\ syncFuncs' = Append(syncFuncs, fn)
        /\ submitted' = Append(submitted, fn)
        /\ inflight' = [inflight EXCEPT ![t] = fn.id]

PostWakeupOnlyIfFirst(t) ==
    /\ inflight[t] # 0
    /\ postedQ' = IF Len(syncFuncs) <= 1 THEN Append(postedQ, SyncMsg) ELSE postedQ
    /\ inflight' = [inflight EXCEPT ![t] = 0]
    /\ postedFns' = postedFns \cup {inflight[t]}
    /\ cleanFns' = IF \A u \in Threads \ {t} : inflight[u] = 0
                   THEN cleanFns \cup {inflight[t]} ELSE cleanFns

\* Synchronize, the rest: PostMessage(app.msgWindow, app.syncFuncMsg).
PostWakeup(t) ==
    /\ inflight[t] # 0
    /\ postedQ' = Append(postedQ, SyncMsg)
    /\ inflight' = [inflight EXCEPT ![t] = 0]
    /\ postedFns' = postedFns \cup {inflight[t]}
    /\ cleanFns' = IF \A u \in Threads \ {t} : inflight[u] = 0
                   THEN cleanFns \cup {inflight[t]} ELSE cleanFns

\* win.PostQuitMessage called by thread t: the queue's quit flag and its code.
PostQuitMessage(t, code32, origin) ==
    /\ quitPending' = TRUE
    /\ quitCode' = code32
    /\ quitPosts' = Append(quitPosts, [by |-> t, code |-> code32, origin |-> origin])

ExitWithoutFlag(t, c) ==
    /\ exitCalls' = exitCalls + 1
    /\ exiting' = TRUE
    /\ ctxCancelled' = TRUE
    /\ firstExit' = IF exiting THEN firstExit ELSE [by |-> t, code |-> c]
    /\ IF ~IsUIThread(t)
       THEN Synchronize(t, "quit", c) /\ UNCHANGED quitVars
       ELSE PostQuitMessage(t, ToInt32(c), "exit") /\ UNCHANGED syncVars

ExitPostsDirectly(t, c) ==
    /\ exitCalls' = exitCalls + 1
    /\ IF exiting
       THEN UNCHANGED <<exiting, ctxCancelled, firstExit, syncVars, quitVars>>
       ELSE /\ exiting' = TRUE
            /\ ctxCancelled' = TRUE
            /\ firstExit' = [by |-> t, code |-> c]
            /\ PostQuitMessage(t, ToInt32(c), "exit")
            /\ UNCHANGED syncVars

\* Application.Exit called by thread t with exit code c.
Exit(t, c) ==
    /\ exitCalls' = exitCalls + 1
    /\ IF exiting
       THEN UNCHANGED <<exiting, ctxCancelled, firstExit, syncVars, quitVars>>
       ELSE /\ exiting' = TRUE
            /\ ctxCancelled' = TRUE
            /\ firstExit' = [by |-> t, code |-> c]
            /\ IF ~IsUIThread(t)
               THEN Synchronize(t, "quit", c) /\ UNCHANGED quitVars
               ELSE PostQuitMessage(t, ToInt32(c), "exit") /\ UNCHANGED syncVars

RunSyncFuncLast ==
    IF syncFuncs = <<>>
    THEN UNCHANGED <<syncFuncs, ran, quitVars>>
    ELSE LET fn == syncFuncs[Len(syncFuncs)] IN
         /\ syncFuncs' = SubSeq(syncFuncs, 1, Len(syncFuncs) - 1)
         /\ ran' = Append(ran, [id |-> fn.id, by |-> Owner])
         /\ IF fn.kind = "quit"
            THEN PostQuitMessage(Owner, ToInt32(fn.code), "exit")
            ELSE UNCHANGED quitVars

\* Application.runSyncFunc that runs every queued callable at one wakeup.
RunSyncFuncAll ==
    /\ syncFuncs' = <<>>
    /\ ran' = ran \o [i \in 1..Len(syncFuncs) |-> [id |-> syncFuncs[i].id, by |-> Owner]]
    /\ IF \E i \in 1..Len(syncFuncs) : syncFuncs[i].kind = "quit"
       THEN LET q == CHOOSE i \in 1..Len(syncFuncs) : syncFuncs[i].kind = "quit"
            IN PostQuitMessage(Owner, ToInt32(syncFuncs[q].code), "exit")
       ELSE UNCHANGED quitVars

\* Application.runSyncFunc, run by appMsgWndProc on the owner thread.
RunSyncFunc ==
    IF syncFuncs = <<>>
    THEN UNCHANGED <<syncFuncs, ran, quitVars>>
    ELSE LET fn == Head(syncFuncs) IN
         /\ syncFuncs' = Tail(syncFuncs)
         /\ ran' = Append(ran, [id |-> fn.id, by |-> Owner])
         /\ IF fn.kind = "quit"
            THEN PostQuitMessage(Owner, ToInt32(fn.code), "exit")
            ELSE UNCHANGED quitVars

\* ---------------------------------------------------------------- forms
\* WindowBase.Dispose: destroys the window once; hWnd is zero afterwards.
WindowBaseDispose(f) ==
    IF f.hWnd
    THEN [f EXCEPT !.hWnd = FALSE, !.destroyed = @ + 1]
    ELSE f

\* FormBase.Dispose signalling the layout performer whether the window lives or not.
FormDisposeAlwaysSignals(f) ==
    WindowBaseDispose([f EXCEPT !.disposeCalls = @ + 1, !.quitSent = @ + 1])

\* FormBase.Dispose: stops the layout performer of a live form, then disposes
\* of the window.
FormDispose(f) ==
    WindowBaseDispose([f EXCEPT !.disposeCalls = @ + 1,
                                !.quitSent = IF f.hWnd THEN @ + 1 ELSE @])

\* FormBase.WndProc, WM_CLOSE: unless a Closing handler cancels, the form
\* stops running and is disposed of.
FormClose(f, canceled) ==
    IF canceled THEN f ELSE FormDispose([f EXCEPT !.started = FALSE])

\* ---------------------------------------------------------------- loops
MainFrame == [kind |-> "main", modal |-> NoModal, owner |-> NoWindow,
              entryDepth |-> 0, reenable |-> FALSE, wasEnabled |-> FALSE]

Pop(s) == SubSeq(s, 1, Len(s) - 1)

RunMainEntryUnchecked ==
    /\ activeMessageLoops' = activeMessageLoops + 1
    /\ stack' = Append(stack, MainFrame)
    /\ runState' = "running"
    /\ UNCHANGED <<nestedRunFaults, crashed>>

\* Run -> runMainMessageLoop, up to the loop: a fault when a loop is active,
\* which the caller either recovers from or not.
RunMainEntry ==
    IF activeMessageLoops # 0
    THEN /\ nestedRunFaults' = nestedRunFaults + 1
         /\ \E recovered \in BOOLEAN : crashed' = ~recovered
         /\ UNCHANGED <<activeMessageLoops, stack, runState>>
    ELSE /\ activeMessageLoops' = activeMessageLoops + 1
         /\ stack' = Append(stack, MainFrame)
         /\ runState' = "running"
         /\ UNCHANGED <<nestedRunFaults, crashed>>

RunModalEnterAlwaysReenables(m, w, s) ==
    /\ forms[m].phase = "new"
    /\ activeMessageLoops' = activeMessageLoops + 1
    /\ stack' = Append(stack, [kind |-> "modal", modal |-> m, owner |-> w,
                               entryDepth |-> activeMessageLoops,
                               reenable |-> w # NoWindow,
                               wasEnabled |-> w # NoWindow /\ enabled[w]])
    /\ enabled' = IF w # NoWindow THEN [enabled EXCEPT ![w] = FALSE] ELSE enabled
    /\ forms' = [forms EXCEPT ![m] = [@ EXCEPT !.phase = "running", !.owner = w,
                                                !.started = s]]

\* RunModal(m) up to its loop, for a form owned by w that the application has
\* started (FormBase.start) or not: the depth is incremented, the owner window
\* is disabled (re-enabling is deferred when it was not disabled before), and
\* the modal enters mode.
RunModalEnter(m, w, s) ==
    /\ forms[m].phase = "new"
    /\ activeMessageLoops' = activeMessageLoops + 1
    /\ stack' = Append(stack, [kind |-> "modal", modal |-> m, owner |-> w,
                               entryDepth |-> activeMessageLoops,
                               reenable |-> w # NoWindow /\ enabled[w],
                               wasEnabled |-> w # NoWindow /\ enabled[w]])
    /\ enabled' = IF w # NoWindow THEN [enabled EXCEPT ![w] = FALSE] ELSE enabled
    /\ forms' = [forms EXCEPT ![m] = [@ EXCEPT !.phase = "running", !.owner = w,
                                                !.started = s]]

RunModalReturnNotDeferred(how) ==
    LET f == Top
        ok == how = "predicate"
    IN  /\ enabled' = IF f.reenable /\ ok THEN [enabled EXCEPT ![f.owner] = TRUE]
                      ELSE enabled
        /\ forms' = [forms EXCEPT ![f.modal] =
                       [(IF ok THEN FormDispose(@) ELSE @) EXCEPT
                           !.phase = "returned", !.how = how]]
        /\ activeMessageLoops' = IF ok THEN activeMessageLoops - 1 ELSE activeMessageLoops
        /\ stack' = Pop(stack)

RunModalReturnNoDispose(how) ==
    LET f == Top
    IN  /\ enabled' = IF f.reenable THEN [enabled EXCEPT ![f.owner] = TRUE] ELSE enabled
        /\ forms' = [forms EXCEPT ![f.modal] = [@ EXCEPT !.phase = "returned", !.how = how]]
        /\ activeMessageLoops' = activeMessageLoops - 1
        /\ stack' = Pop(stack)

\* RunModal's return: the deferred calls run last-in first-out on every path:
\* the owner window is enabled again, the modal is disposed of, the depth is
\* decremented.
RunModalReturn(how) ==
    LET f == Top
    IN  /\ enabled' = IF f.reenable THEN [enabled EXCEPT ![f.owner] = TRUE] ELSE enabled
        /\ forms' = [forms EXCEPT ![f.modal] =
                       [FormDispose(@) EXCEPT !.phase = "returned", !.how = how]]
        /\ activeMessageLoops' = activeMessageLoops - 1
        /\ stack' = Pop(stack)

\* runMainMessageLoop's return: the deferred decrement.
RunMainReturn ==
    /\ activeMessageLoops' = activeMessageLoops - 1
    /\ stack' = Pop(stack)
    /\ UNCHANGED <<enabled, forms>>

\* ---------------------------------------------------------------- owner thread
\* Run called by the application's main code.
OwnerRun ==
    /\ stack = <<>> /\ runState = "notrun" /\ ~crashed
    /\ RunMainEntry
    /\ UNCHANGED <<auxVars, exitVars, syncVars, quitVars, evVars, enabled, forms, postedQ,
                   runResult, ran, postedFns, cleanFns>>

\* RunModal called by the application's main code, outside any loop.
OwnerRunModal(m, w, s) ==
    /\ stack = <<>> /\ runState = "notrun" /\ ~crashed
    /\ RunModalEnter(m, w, s)
    /\ UNCHANGED <<auxVars, exitVars, syncVars, quitVars, evVars, postedQ, crashed, runState,
                   runResult, ran, postedFns, cleanFns, nestedRunFaults>>

\* runMainMessageLoop: GetMessage returns 0 for the quit signal, which the
\* queue yields once no posted message is left; Run returns int(msg.WParam).
MainQuit ==
    /\ CanFetch /\ Top.kind = "main"
    /\ postedQ = <<>> /\ quitPending
    /\ quitPending' = FALSE
    /\ RunMainReturn
    /\ runState' = "returned"
    /\ runResult' = IntFromWParam(quitCode)
    /\ UNCHANGED <<auxVars, exitVars, syncVars, evVars, quitCode, quitPosts, postedQ, crashed,
                   ran, postedFns, cleanFns, nestedRunFaults>>

PopMessageQuitSwallows ==
    /\ quitPending' = FALSE
    /\ UNCHANGED <<quitCode, quitPosts>>

\* popMessage on the quit signal: it is taken off the queue and posted again
\* with int32(msg.WParam).
PopMessageQuit == PostQuitMessage(Owner, quitCode, "repost")

\* RunModal: popMessage reports the quit signal and RunModal returns.
ModalQuit ==
    /\ CanFetch /\ Top.kind = "modal"
    /\ postedQ = <<>> /\ quitPending
    /\ PopMessageQuit
    /\ RunModalReturn("quit")
    /\ UNCHANGED <<auxVars, exitVars, syncVars, evVars, postedQ, crashed, runState, runResult,
                   ran, postedFns, cleanFns, nestedRunFaults>>

\* RunModal: modal.Running() is false and the loop ends.
ModalDone ==
    /\ stack # <<>> /\ ~crashed /\ inflight[Owner] = 0
    /\ Top.kind = "modal" /\ ~Running(Top.modal)
    /\ RunModalReturn("predicate")
    /\ UNCHANGED <<auxVars, exitVars, syncVars, quitVars, evVars, postedQ, crashed, runState,
                   runResult, ran, postedFns, cleanFns, nestedRunFaults>>

\* A hook called by the loop itself raises a fault: the loop's deferred calls
\* run and the fault goes on to the loop's caller, which recovers from it or not.
LoopFault ==
    /\ CanFetch
    /\ IF Top.kind = "modal"
       THEN RunModalReturn("fault") /\ UNCHANGED runState
       ELSE RunMainReturn /\ runState' = "faulted"
    /\ \E recovered \in BOOLEAN : crashed' = ~recovered
    /\ UNCHANGED <<auxVars, exitVars, syncVars, quitVars, evVars, postedQ, runResult, ran,
                   postedFns, cleanFns, nestedRunFaults>>

\* ---------------------------------------------------------------- dispatch
Fetched(kind) ==
    /\ CanFetch
    /\ postedQ # <<>>
    /\ Head(postedQ).kind = kind
    /\ postedQ' = Tail(postedQ)

\* appMsgWndProc, syncFuncMsg.
DispatchWakeup ==
    /\ Fetched("sync")
    /\ RunSyncFunc
    /\ UNCHANGED <<auxVars, exitVars, inflight, submitted, nextFn, loopVars, evVars, crashed,
                   runState, runResult, postedFns, cleanFns, nestedRunFaults>>

\* A posted event whose handler touches none of the core.
DispatchEvent ==
    /\ Fetched("event")
    /\ overtaken' = overtaken \cup (Head(postedQ).before \ RanIds)
    /\ respected' = respected \cup (Head(postedQ).before \cap RanIds)
    /\ UNCHANGED <<auxVars, exitVars, syncVars, quitVars, loopVars, nextEvent, crashed, runState,
                   runResult, ran, postedFns, cleanFns, nestedRunFaults>>

\* WM_CLOSE for a form; a destroyed window receives nothing.
DispatchClose ==
    /\ Fetched("close")
    /\ \E canceled \in BOOLEAN :
         forms' = [forms EXCEPT ![Head(postedQ).modal] =
                     IF @.hWnd THEN FormClose(@, canceled) ELSE @]
    /\ UNCHANGED <<auxVars, exitVars, syncVars, quitVars, evVars, activeMessageLoops, stack,
                   enabled, crashed, runState, runResult, ran, postedFns, cleanFns,
                   nestedRunFaults>>

\* An input event whose handler runs a modal.
InputOpenModal(m, w, s) ==
    /\ CanFetch
    /\ RunModalEnter(m, w, s)
    /\ UNCHANGED <<auxVars, exitVars, syncVars, quitVars, evVars, postedQ, crashed, runState,
                   runResult, ran, postedFns, cleanFns, nestedRunFaults>>

\* An input event whose handler calls Exit.
InputExit(c) ==
    /\ CanFetch /\ exitCalls < MaxExitCalls
    /\ Exit(Owner, c)
    /\ UNCHANGED <<auxVars, loopVars, evVars, postedQ, crashed, runState, runResult, ran,
                   postedFns, cleanFns, nestedRunFaults>>

\* An input event whose handler calls Synchronize.
InputSynchronize ==
    /\ CanFetch /\ NumFns < MaxFuncs
    /\ Synchronize(Owner, "fn", NoCode)
    /\ UNCHANGED <<auxVars, exitVars, quitVars, loopVars, evVars, postedQ, crashed, runState,
                   runResult, ran, postedFns, cleanFns, nestedRunFaults>>

\* An input event whose handler calls Run.
InputRun ==
    /\ CanFetch /\ nestedRunFaults < MaxNestedRuns
    /\ RunMainEntry
    /\ UNCHANGED <<auxVars, exitVars, syncVars, quitVars, evVars, enabled, forms, postedQ,
                   runResult, ran, postedFns, cleanFns>>

\* ---------------------------------------------------------------- other threads
\* The second half of any thread's Synchronize.
SynchronizePost(t) ==
    /\ ~crashed
    /\ PostWakeup(t)
    /\ UNCHANGED <<auxVars, exitVars, syncFuncs, submitted, nextFn, quitVars, loopVars, evVars,
                   crashed, runState, runResult, ran, nestedRunFaults>>

WorkerSynchronize(t) ==
    /\ ~crashed /\ NumFns < MaxFuncs
    /\ Synchronize(t, "fn", NoCode)
    /\ UNCHANGED <<auxVars, exitVars, quitVars, loopVars, evVars, postedQ, crashed, runState,
                   runResult, ran, postedFns, cleanFns, nestedRunFaults>>

WorkerExit(t, c) ==
    /\ ~crashed /\ exitCalls < MaxExitCalls /\ inflight[t] = 0
    /\ Exit(t, c)
    /\ UNCHANGED <<auxVars, loopVars, evVars, postedQ, crashed, runState, runResult, ran,
                   postedFns, cleanFns, nestedRunFaults>>

\* A worker calls Exit while nobody has done so yet.
WorkerExitFirst(t) ==
    /\ ~exiting
    /\ \E c \in {[hi |-> 0, lo |-> 3]} : WorkerExit(t, c)

\* ---------------------------------------------------------------- environment
\* Some thread posts an event to the owner thread's queue.
PostEvent ==
    /\ ~crashed /\ nextEvent < MaxEvents
    /\ nextEvent' = nextEvent + 1
    /\ postedQ' = Append(postedQ, EventMsg(nextEvent + 1))
    /\ UNCHANGED <<auxVars, exitVars, syncVars, quitVars, loopVars, overtaken, respected,
                   crashed, runState, runResult, ran, postedFns, cleanFns,
                   nestedRunFaults>>

\* The user closes a form that runs a modal loop.
PostClose(m) ==
    /\ ~crashed
    /\ forms[m].phase = "running" /\ forms[m].hWnd /\ ~forms[m].closePosted
    /\ forms' = [forms EXCEPT ![m].closePosted = TRUE]
    /\ postedQ' = Append(postedQ, CloseMsg(m))
    /\ UNCHANGED <<auxVars, exitVars, syncVars, quitVars, evVars, activeMessageLoops, stack,
                   enabled, crashed, runState, runResult, ran, postedFns, cleanFns,
                   nestedRunFaults>>

OwnerChoices == Windows \cup {NoWindow}

\* The forms that can be handed to RunModal next: forms are told apart by the
\* order in which they are used only.
NextModals ==
    { m \in Modals : forms[m].phase = "new" /\ (m = "m1" \/ forms["m1"].phase # "new") }

\* The loops, Exit and the quit signal: every thread may call Exit, the owner
\* thread runs the top-level loop and modal loops inside or outside of it.
\* The workers that can make their next call: workers are told apart by the
\* order of their first calls only, and once the application is exiting by
\* nothing at all.
ActiveWorkers ==
    { t \in Workers : \/ t = "t1"
                      \/ exiting
                      \/ \E i \in 1..Len(submitted) : submitted[i].by = "t1" }

Next ==
    \/ OwnerRun
    \/ \E m \in NextModals, w \in OwnerChoices, s \in BOOLEAN : OwnerRunModal(m, w, s)
    \/ MainQuit
    \/ ModalQuit
    \/ ModalDone
    \/ LoopFault
    \/ DispatchWakeup
    \/ DispatchClose
    \/ \E m \in NextModals, w \in OwnerChoices, s \in BOOLEAN : InputOpenModal(m, w, s)
    \/ \E c \in ExitCodes : InputExit(c)
    \/ InputRun
    \/ \E t \in Workers : SynchronizePost(t)
    \/ \E t \in ActiveWorkers, c \in ExitCodes : WorkerExit(t, c)
    \/ \E m \in Modals : PostClose(m)

Spec == Init /\ [][Next]_vars

\* The loops under the owner thread's scheduling: a loop that can take its
\* next step does so eventually.
LiveSpec ==
    /\ Spec
    /\ WF_vars(MainQuit) /\ WF_vars(ModalQuit) /\ WF_vars(ModalDone)
    /\ WF_vars(DispatchWakeup) /\ WF_vars(DispatchClose)

\* The bridge: every thread calls Synchronize while the top-level loop pumps
\* wakeups and posted events, until Exit ends the loop.
BridgeNext ==
    \/ OwnerRun
    \/ MainQuit
    \/ DispatchWakeup
    \/ DispatchEvent
    \/ InputSynchronize
    \/ \E t \in Threads : SynchronizePost(t)
    \/ \E t \in ActiveWorkers : WorkerSynchronize(t)
    \/ \E t \in ActiveWorkers : WorkerExitFirst(t)
    \/ PostEvent

SpecBridge == Init /\ [][BridgeNext]_vars

\* A syncFuncMsg reaches the message window that no Synchronize call posted.
StrayWakeup ==
    /\ ~crashed /\ Len(postedQ) < MaxFuncs
    /\ postedQ' = Append(postedQ, SyncMsg)
    /\ UNCHANGED <<auxVars, exitVars, syncVars, quitVars, loopVars, evVars, crashed, runState,
                   runResult, ran, postedFns, cleanFns, nestedRunFaults>>

\* The drain: every thread calls Synchronize while the top-level loop observes
\* the wakeups, some of which find the queue empty.
DrainNext ==
    \/ OwnerRun
    \/ DispatchWakeup
    \/ InputSynchronize
    \/ \E t \in Threads : SynchronizePost(t)
    \/ \E t \in ActiveWorkers : WorkerSynchronize(t)
    \/ StrayWakeup

SpecDrain == Init /\ [][DrainNext]_vars

\* ---------------------------------------------------------------- hooks
\* All orders in which the keys S can be visited.
Orders(S) ==
    { q \in [1..Cardinality(S) -> S] : \A i, j \in 1..Cardinality(S) : q[i] = q[j] => i = j }

RegisteredKeys == { w \in Hwnds : perWindowPreTranslateHandlers[w] # NilHook }

\* The offers of a chain up to and including the first one that is taken.
UpToTaker(offers, takes) ==
    LET hits == { i \in 1..Len(offers) : takes[offers[i].hook] }
    IN  IF hits = {} THEN offers
        ELSE SubSeq(offers, 1, CHOOSE i \in hits : \A j \in hits : i <= j)

Taken(offers, takes) == \E i \in 1..Len(offers) : takes[offers[i].hook]

GlobalOffers ==
    [i \in 1..Len(globalPreTranslateHandlers) |->
        [level |-> "global", key |-> NoHwnd, hook |-> globalPreTranslateHandlers[i]]]

PerWindowOffers(order) ==
    [i \in 1..Len(order) |->
        [level |-> "perwindow", key |-> order[i],
         hook |-> perWindowPreTranslateHandlers[order[i]]]]

TargetOffers(dest) ==
    IF dest \in WindowsWithHook
    THEN <<[level |-> "target", key |-> dest, hook |-> SelfHook]>>
    ELSE <<>>

RunPreTranslateHandlerPerWindowFirst(dest, takes, order) ==
    LET p == PerWindowOffers(order)
        g == GlobalOffers
        t == TargetOffers(dest)
    IN  IF Taken(p, takes) THEN [offers |-> UpToTaker(p, takes), consumed |-> TRUE]
        ELSE IF Taken(g, takes)
             THEN [offers |-> p \o UpToTaker(g, takes), consumed |-> TRUE]
             ELSE [offers |-> p \o g \o t, consumed |-> Taken(t, takes)]

RunPreTranslateHandlerKeyedOnly(dest, takes, order) ==
    LET g == GlobalOffers
        p == IF dest \in RegisteredKeys THEN PerWindowOffers(<<dest>>) ELSE <<>>
        t == TargetOffers(dest)
    IN  IF Taken(g, takes) THEN [offers |-> UpToTaker(g, takes), consumed |-> TRUE]
        ELSE IF Taken(p, takes)
             THEN [offers |-> g \o UpToTaker(p, takes), consumed |-> TRUE]
             ELSE [offers |-> g \o p \o t, consumed |-> Taken(t, takes)]

\* Application.runPreTranslateHandler for a message addressed to dest, the
\* hooks answering as takes says and the map being ranged over in order: the
\* global handlers, then every per-window handler, then the window msg is for.
RunPreTranslateHandler(dest, takes, order) ==
    LET g == GlobalOffers
        p == PerWindowOffers(order)
        t == TargetOffers(dest)
    IN  IF Taken(g, takes) THEN [offers |-> UpToTaker(g, takes), consumed |-> TRUE]
        ELSE IF Taken(p, takes)
             THEN [offers |-> g \o UpToTaker(p, takes), consumed |-> TRUE]
             ELSE [offers |-> g \o p \o t, consumed |-> Taken(t, takes)]

\* AddGlobalPreTranslateHandler: a nil handler is ignored.
AddGlobalPreTranslateHandler(h) ==
    /\ ~crashed /\ Len(globalPreTranslateHandlers) < MaxGlobalHooks
    /\ globalPreTranslateHandlers' =
          IF h # NilHook THEN Append(globalPreTranslateHandlers, h)
          ELSE globalPreTranslateHandlers
    /\ UNCHANGED <<appVars, progVars, histVars, cbVars, layoutVars, idVars, perWindowPreTranslateHandlers, lastMsg, hookFaults>>

\* AddPreTranslateHandlerForHWND: faults on a zero hwnd or a nil handler.
AddPreTranslateHandlerForHWND(hwnd, h) ==
    /\ ~crashed
    /\ IF hwnd = NoHwnd \/ h = NilHook
       THEN /\ hookFaults < MaxHookFaults
            /\ hookFaults' = hookFaults + 1
            /\ UNCHANGED perWindowPreTranslateHandlers
       ELSE /\ perWindowPreTranslateHandlers' =
                  [perWindowPreTranslateHandlers EXCEPT ![hwnd] = h]
            /\ UNCHANGED hookFaults
    /\ UNCHANGED <<appVars, progVars, histVars, cbVars, layoutVars, idVars, globalPreTranslateHandlers, lastMsg>>

\* DeletePreTranslateHandlerForHWND.
DeletePreTranslateHandlerForHWND(hwnd) ==
    /\ ~crashed /\ hwnd \in RegisteredKeys
    /\ perWindowPreTranslateHandlers' =
          [perWindowPreTranslateHandlers EXCEPT ![hwnd] = NilHook]
    /\ UNCHANGED <<appVars, progVars, histVars, cbVars, layoutVars, idVars, globalPreTranslateHandlers, lastMsg, hookFaults>>

\* Application.runPostDispatchHandler: the OnPostDispatch calls made for a
\* message addressed to dest; none when msg has no window or its window does
\* not implement PostDispatchHandler.
RunPostDispatchHandler(dest) ==
    IF dest \in WindowsWithPostDispatch THEN <<dest>> ELSE <<>>

RunMainMessageLoopBodyNoContinue(dest, takes, order) ==
    LET r == RunPreTranslateHandler(dest, takes, order)
    IN  [offers |-> r.offers, consumed |-> r.consumed, dispatched |-> 1,
         postDispatch |-> RunPostDispatchHandler(dest)]

\* The body of the loop of runMainMessageLoop for one fetched message: when
\* runPreTranslateHandler reports it handled the loop continues with the next
\* message; otherwise the message is translated and dispatched and
\* runPostDispatchHandler is called.
RunMainMessageLoopBody(dest, takes, order) ==
    LET r == RunPreTranslateHandler(dest, takes, order)
    IN  IF r.consumed
        THEN [offers |-> r.offers, consumed |-> TRUE, dispatched |-> 0,
              postDispatch |-> <<>>]
        ELSE [offers |-> r.offers, consumed |-> FALSE, dispatched |-> 1,
              postDispatch |-> RunPostDispatchHandler(dest)]

\* The hooks among those offered a message that answered it was handled.
HandledBy(offers, takes) ==
    { offers[i].hook : i \in { j \in 1..Len(offers) : takes[offers[j].hook] } }

\* runMainMessageLoop: a message is fetched and offered to the hooks; it is
\* dispatched unless a hook takes it.
PumpMessage(dest) ==
    /\ CanFetch /\ Top.kind = "main"
    /\ \E takes \in [Hooks \cup {SelfHook} -> BOOLEAN], order \in Orders(RegisteredKeys) :
          \E r \in {RunMainMessageLoopBody(dest, takes, order)} :
              lastMsg' = [dest |-> dest, globals |-> globalPreTranslateHandlers,
                          keys |-> RegisteredKeys, offers |-> r.offers,
                          consumed |-> r.consumed, pumped |-> TRUE,
                          handled |-> HandledBy(r.offers, takes),
                          dispatched |-> r.dispatched,
                          postDispatch |-> r.postDispatch]
    /\ UNCHANGED <<appVars, progVars, histVars, cbVars, layoutVars, idVars, globalPreTranslateHandlers,
                   perWindowPreTranslateHandlers, hookFaults>>

\* The hooks: handlers are registered and removed on the owner thread while
\* the top-level loop pumps messages through them.
HooksNext ==
    \/ OwnerRun
    \/ \E h \in Hooks \cup {NilHook} : AddGlobalPreTranslateHandler(h)
    \/ \E w \in Hwnds \cup {NoHwnd}, h \in Hooks \cup {NilHook} :
          AddPreTranslateHandlerForHWND(w, h)
    \/ \E w \in Hwnds : DeletePreTranslateHandlerForHWND(w)
    \/ \E d \in Hwnds \cup {NoHwnd} : PumpMessage(d)

SpecHooks == Init /\ [][HooksNext]_vars

\* ---------------------------------------------------------------- callbacks
HandlePanicAndReturn(x, stk) ==
    IF x = NoFault
    THEN UNCHANGED <<redirected, cbState>>
    ELSE /\ redirected' = Append(redirected, [inner |-> x, stack |-> stk])
         /\ UNCHANGED cbState

\* Application.HandlePanicFromNativeCallback, deferred by a callback: x is
\* what recover() yields (NoFault for a normal return) and stk the panicking
\* stack. The fault is raised again on a goroutine of its own and the
\* calling goroutine blocks in select {}.
HandlePanicFromNativeCallback(x, stk) ==
    IF x = NoFault
    THEN UNCHANGED <<redirected, cbState>>
    ELSE /\ redirected' = Append(redirected, [inner |-> x, stack |-> stk])
         /\ cbState' = "blocked"

\* The innermost callback in progress that has the boundary (0: none).
InnermostWrapped ==
    LET w == { i \in 1..Len(cbStack) : cbStack[i] \in Wrapped }
    IN  IF w = {} THEN 0 ELSE CHOOSE i \in w : \A j \in w : j <= i

\* The windowing system calls cb.
CallbackEnter(cb) ==
    /\ cbState = "running" /\ Len(cbStack) < MaxCallbackDepth
    /\ cbStack' = Append(cbStack, cb)
    /\ UNCHANGED <<appVars, progVars, histVars, hookVars, layoutVars, idVars, cbState, redirected, nativeUnwound, cbReturns>>

\* The innermost callback returns normally; its deferred call, if any, runs.
CallbackReturn ==
    /\ cbState = "running" /\ cbStack # <<>> /\ cbReturns < MaxCallbackReturns
    /\ IF cbStack[Len(cbStack)] \in Wrapped
       THEN HandlePanicFromNativeCallback(NoFault, cbStack)
       ELSE UNCHANGED <<redirected, cbState>>
    /\ cbStack' = SubSeq(cbStack, 1, Len(cbStack) - 1)
    /\ cbReturns' = cbReturns + 1
    /\ UNCHANGED <<appVars, progVars, histVars, hookVars, layoutVars, idVars, nativeUnwound>>

\* The innermost callback raises the fault x: it unwinds the callbacks that
\* have no boundary, and their native callers, up to the innermost boundary;
\* without one it leaves the owner thread's context unrecovered.
CallbackPanic(x) ==
    /\ cbState = "running" /\ cbStack # <<>>
    /\ LET k == InnermostWrapped
       IN  /\ nativeUnwound' = nativeUnwound \cup { cbStack[i] : i \in (k + 1)..Len(cbStack) }
           /\ cbStack' = SubSeq(cbStack, 1, k)
           /\ IF k = 0
              THEN cbState' = "dead" /\ UNCHANGED redirected
              ELSE HandlePanicFromNativeCallback(x, cbStack)
    /\ UNCHANGED <<appVars, progVars, histVars, hookVars, layoutVars, idVars, cbReturns>>

\* The native callback boundary: callbacks nest, return and raise faults.
BoundaryNext ==
    \/ \E cb \in NativeCallbacks : CallbackEnter(cb)
    \/ CallbackReturn
    \/ \E x \in Faults : CallbackPanic(x)

SpecBoundary == Init /\ [][BoundaryNext]_vars

\* ================================================================ layout
\* The owner thread is neither blocked on the rendezvous nor inside runSyncLayout.
OwnerFree == ownerWaits = NoWait /\ layoutPhase = "idle"

NextReq == Len(lrequests) + 1

Stored == {f \in LForms : layoutResultsByForm[f] # 0}

AppliedIds(how) == {appliedLog[i].id : i \in {j \in 1..Len(appliedLog) : appliedLog[j].how = how}}

CompletedIds == {completedLog[i] : i \in 1..Len(completedLog)}

\* The performer keeps the older request when one is waiting.
PerformLayoutKeepsOlder(f, sizing) ==
    /\ lrequests' = Append(lrequests, [form |-> f, sizing |-> sizing])
    /\ lpPending' = [lpPending EXCEPT ![f] = IF @ # 0 THEN @ ELSE NextReq]
    /\ lpState' = [lpState EXCEPT ![f] = IF @ = "Delivering" THEN @ ELSE "Requested"]
    /\ lpWork' = [lpWork EXCEPT ![f] = IF lpState[f] = "Computing" THEN 0 ELSE @]
    /\ supersededPending' = supersededPending \cup (IF lpPending[f] # 0 THEN {NextReq} ELSE {})
    /\ abandoned' = abandoned \cup (IF lpState[f] = "Computing" THEN {lpWork[f]} ELSE {})

\* The layout performer takes a request in: the newest geometry replaces a request
\* that waits to be picked up, and a computation under way.
PerformLayout(f, sizing) ==
    /\ lrequests' = Append(lrequests, [form |-> f, sizing |-> sizing])
    /\ lpPending' = [lpPending EXCEPT ![f] = NextReq]
    /\ lpState' = [lpState EXCEPT ![f] = IF @ = "Delivering" THEN @ ELSE "Requested"]
    /\ lpWork' = [lpWork EXCEPT ![f] = IF lpState[f] = "Computing" THEN 0 ELSE @]
    /\ supersededPending' = supersededPending \cup (IF lpPending[f] # 0 THEN {lpPending[f]} ELSE {})
    /\ abandoned' = abandoned \cup (IF lpState[f] = "Computing" THEN {lpWork[f]} ELSE {})

\* FormBase.startLayout called outside the size-change handler (OnPostDispatch, a
\* shown window, a size change outside the sizing loop): in the sizing loop it
\* returns false and nothing is requested; otherwise the request goes to the
\* performer and the owner thread goes on.
StartLayout(f) ==
    /\ OwnerFree
    /\ NextReq <= MaxRequests
    /\ IF inSizingLoop[f]
         THEN UNCHANGED <<lrequests, lpPending, lpState, lpWork, supersededPending, abandoned>>
         ELSE PerformLayout(f, FALSE)
    /\ UNCHANGED <<appVars, progVars, histVars, hookVars, cbVars, idVars, inSizingLoop, ownerWaits,
                   layoutResultsByForm, layoutPosting, layoutMsgs, layoutBatch, layoutPhase,
                   layoutIdx, appliedLog, completedLog, pickedUp, handed, replacedResults>>

\* WM_ENTERSIZEMOVE.
EnterSizeMove(f) ==
    /\ OwnerFree
    /\ ~inSizingLoop[f]
    /\ inSizingLoop' = [inSizingLoop EXCEPT ![f] = TRUE]
    /\ UNCHANGED <<appVars, progVars, histVars, hookVars, cbVars, idVars, lpState, lpPending, lpWork, ownerWaits,
                   layoutResultsByForm, layoutPosting, layoutMsgs, layoutBatch, layoutPhase,
                   layoutIdx, lrequests, appliedLog, completedLog, supersededPending, abandoned,
                   pickedUp, handed, replacedResults>>

\* WM_EXITSIZEMOVE.
ExitSizeMove(f) ==
    /\ OwnerFree
    /\ inSizingLoop[f]
    /\ inSizingLoop' = [inSizingLoop EXCEPT ![f] = FALSE]
    /\ UNCHANGED <<appVars, progVars, histVars, hookVars, cbVars, idVars, lpState, lpPending, lpWork, ownerWaits,
                   layoutResultsByForm, layoutPosting, layoutMsgs, layoutBatch, layoutPhase,
                   layoutIdx, lrequests, appliedLog, completedLog, supersededPending, abandoned,
                   pickedUp, handed, replacedResults>>

\* WM_WINDOWPOSCHANGED with a new size in the sizing loop: startingLayoutViaSizingLoop
\* lets startLayout through, and the owner thread then receives from fb.layoutResults.
SizeChangedInSizingLoop(f) ==
    /\ OwnerFree
    /\ inSizingLoop[f]
    /\ NextReq <= MaxRequests
    /\ PerformLayout(f, TRUE)
    /\ ownerWaits' = [form |-> f, req |-> NextReq]
    /\ UNCHANGED <<appVars, progVars, histVars, hookVars, cbVars, idVars, inSizingLoop, layoutResultsByForm,
                   layoutPosting, layoutMsgs, layoutBatch, layoutPhase, layoutIdx, appliedLog,
                   completedLog, pickedUp, handed, replacedResults>>

\* The owner thread receives a result from fb.layoutResults and applies it.
ReceiveLayoutResults(f) ==
    /\ ownerWaits.form = f
    /\ lpState[f] = "Delivering"
    /\ appliedLog' = Append(appliedLog, [id |-> lpWork[f], how |-> "sync", for |-> ownerWaits.req])
    /\ ownerWaits' = NoWait
    /\ lpWork' = [lpWork EXCEPT ![f] = 0]
    /\ lpState' = [lpState EXCEPT ![f] = IF lpPending[f] # 0 THEN "Requested" ELSE "Idle"]
    /\ UNCHANGED <<appVars, progVars, histVars, hookVars, cbVars, idVars, lpPending, inSizingLoop,
                   layoutResultsByForm, layoutPosting, layoutMsgs, layoutBatch, layoutPhase,
                   layoutIdx, lrequests, completedLog, supersededPending, abandoned, pickedUp,
                   handed, replacedResults>>

\* The performer picks the waiting request up.
WorkerPickup(f) ==
    /\ lpState[f] = "Requested"
    /\ f \notin layoutPosting
    /\ lpState' = [lpState EXCEPT ![f] = "Computing"]
    /\ lpWork' = [lpWork EXCEPT ![f] = lpPending[f]]
    /\ lpPending' = [lpPending EXCEPT ![f] = 0]
    /\ pickedUp' = pickedUp \cup {lpPending[f]}
    /\ UNCHANGED <<appVars, progVars, histVars, hookVars, cbVars, idVars, inSizingLoop, ownerWaits,
                   layoutResultsByForm, layoutPosting, layoutMsgs, layoutBatch, layoutPhase,
                   layoutIdx, lrequests, appliedLog, completedLog, supersededPending, abandoned,
                   handed, replacedResults>>

\* synchronizeLayout that keeps an entry the map already holds for the form.
SynchronizeLayoutStoreKeepsFirst(f, id) ==
    /\ layoutResultsByForm' = [layoutResultsByForm EXCEPT ![f] = IF @ # 0 THEN @ ELSE id]
    /\ replacedResults' = replacedResults
    /\ handed' = handed \cup {id}
    /\ layoutPosting' = layoutPosting \cup {f}

\* synchronizeLayout, first half: under syncLayoutMutex the result becomes the
\* form's entry of the map, replacing the entry the map held.
SynchronizeLayoutStore(f, id) ==
    /\ layoutResultsByForm' = [layoutResultsByForm EXCEPT ![f] = id]
    /\ replacedResults' = replacedResults \cup
                            (IF layoutResultsByForm[f] # 0 THEN {layoutResultsByForm[f]} ELSE {})
    /\ handed' = handed \cup {id}
    /\ layoutPosting' = layoutPosting \cup {f}

\* The performer finishes a computation: in an interactive resize the result goes
\* to the rendezvous, otherwise to synchronizeLayout.
WorkerFinish(f) ==
    /\ lpState[f] = "Computing"
    /\ IF inSizingLoop[f]
         THEN /\ lpState' = [lpState EXCEPT ![f] = "Delivering"]
              /\ UNCHANGED <<lpWork, layoutResultsByForm, replacedResults, handed, layoutPosting>>
         ELSE /\ lpState' = [lpState EXCEPT ![f] = "Idle"]
              /\ lpWork' = [lpWork EXCEPT ![f] = 0]
              /\ SynchronizeLayoutStore(f, lpWork[f])
    /\ UNCHANGED <<appVars, progVars, histVars, hookVars, cbVars, idVars, lpPending, inSizingLoop, ownerWaits,
                   layoutMsgs, layoutBatch, layoutPhase, layoutIdx, lrequests, appliedLog,
                   completedLog, supersededPending, abandoned, pickedUp>>

\* synchronizeLayout, second half: PostMessage(syncLayoutMsg).
SynchronizeLayoutPost(f) ==
    /\ f \in layoutPosting
    /\ layoutPosting' = layoutPosting \ {f}
    /\ layoutMsgs' = layoutMsgs + 1
    /\ UNCHANGED <<appVars, progVars, histVars, hookVars, cbVars, idVars, lpState, lpPending, lpWork, inSizingLoop,
                   ownerWaits, layoutResultsByForm, layoutBatch, layoutPhase, layoutIdx,
                   lrequests, appliedLog, completedLog, supersededPending, abandoned, pickedUp,
                   handed, replacedResults>>

\* runSyncLayout, under the lock: every entry of the map goes to the local slice,
\* in the order the map's range yields them, and the map is cleared.
RunSyncLayoutDrain ==
    \E order \in Orders(Stored) :
        /\ OwnerFree
        /\ layoutMsgs > 0
        /\ layoutMsgs' = layoutMsgs - 1
        /\ layoutBatch' = [i \in 1..Len(order) |-> layoutResultsByForm[order[i]]]
        /\ layoutResultsByForm' = [f \in LForms |-> 0]
        /\ layoutPhase' = IF Len(order) = 0 THEN "idle" ELSE "apply"
        /\ layoutIdx' = IF Len(order) = 0 THEN 0 ELSE 1
        /\ UNCHANGED <<appVars, progVars, histVars, hookVars, cbVars, idVars, lpState, lpPending, lpWork,
                       inSizingLoop, ownerWaits, layoutPosting, lrequests, appliedLog,
                       completedLog, supersededPending, abandoned, pickedUp, handed,
                       replacedResults>>

\* runSyncLayout calling a result's completion functions right after applying it.
RunSyncLayoutApplyAndComplete ==
    /\ layoutPhase = "apply"
    /\ appliedLog' = Append(appliedLog, [id |-> layoutBatch[layoutIdx], how |-> "batch", for |-> 0])
    /\ completedLog' = Append(completedLog, layoutBatch[layoutIdx])
    /\ IF layoutIdx = Len(layoutBatch)
         THEN layoutPhase' = "idle" /\ layoutIdx' = 0 /\ layoutBatch' = <<>>
         ELSE layoutPhase' = "apply" /\ layoutIdx' = layoutIdx + 1 /\ UNCHANGED layoutBatch
    /\ UNCHANGED <<appVars, progVars, histVars, hookVars, cbVars, idVars, lpState, lpPending, lpWork, inSizingLoop,
                   ownerWaits, layoutResultsByForm, layoutPosting, layoutMsgs, lrequests,
                   supersededPending, abandoned, pickedUp, handed, replacedResults>>

\* runSyncLayout, first loop: applyLayoutResults for the next result of the slice.
RunSyncLayoutApply ==
    /\ layoutPhase = "apply"
    /\ appliedLog' = Append(appliedLog, [id |-> layoutBatch[layoutIdx], how |-> "batch", for |-> 0])
    /\ IF layoutIdx = Len(layoutBatch)
         THEN layoutPhase' = "complete" /\ layoutIdx' = 1
         ELSE layoutPhase' = "apply" /\ layoutIdx' = layoutIdx + 1
    /\ UNCHANGED <<appVars, progVars, histVars, hookVars, cbVars, idVars, lpState, lpPending, lpWork, inSizingLoop,
                   ownerWaits, layoutResultsByForm, layoutPosting, layoutMsgs, layoutBatch,
                   lrequests, completedLog, supersededPending, abandoned, pickedUp, handed,
                   replacedResults>>

\* runSyncLayout, second loop: the completion functions of the next result.
RunSyncLayoutComplete ==
    /\ layoutPhase = "complete"
    /\ completedLog' = Append(completedLog, layoutBatch[layoutIdx])
    /\ IF layoutIdx = Len(layoutBatch)
         THEN layoutPhase' = "idle" /\ layoutIdx' = 0 /\ layoutBatch' = <<>>
         ELSE layoutPhase' = "complete" /\ layoutIdx' = layoutIdx + 1 /\ UNCHANGED layoutBatch
    /\ UNCHANGED <<appVars, progVars, histVars, hookVars, cbVars, idVars, lpState, lpPending, lpWork, inSizingLoop,
                   ownerWaits, layoutResultsByForm, layoutPosting, layoutMsgs, lrequests,
                   appliedLog, supersededPending, abandoned, pickedUp, handed, replacedResults>>

LayoutNext ==
    \/ \E f \in LForms : StartLayout(f)
    \/ \E f \in LForms : EnterSizeMove(f)
    \/ \E f \in LForms : ExitSizeMove(f)
    \/ \E f \in LForms : SizeChangedInSizingLoop(f)
    \/ \E f \in LForms : ReceiveLayoutResults(f)
    \/ \E f \in LForms : WorkerPickup(f)
    \/ \E f \in LForms : WorkerFinish(f)
    \/ \E f \in LForms : SynchronizeLayoutPost(f)
    \/ RunSyncLayoutDrain
    \/ RunSyncLayoutApply
    \/ RunSyncLayoutComplete

SpecLayout == Init /\ [][LayoutNext]_vars

\* ================================================================ control ids
FreeIds == Ids \ allocated

\* IDAllocator.Free: gives an allocated id back.
Free(id) == allocated \ {id}

\* freeCtrlID that gives every id back to the allocator.
FreeCtrlIDUnguarded(id) == Free(id)

\* FormBase.freeCtrlID: a predefined id is never given back to the allocator.
FreeCtrlID(id) == IF id > maxPredefinedCtrlID THEN Free(id) ELSE allocated

\* NewPushButtonWithOptions: a predefined id above IDCONTINUE is refused, one
\* above zero is set on the button at once.
NewPushButtonWithOptions(c, predefinedID) ==
    /\ ~ctrlPanic /\ ~freeFault
    /\ c \notin buttons
    /\ predefinedID <= maxPredefinedCtrlID
    /\ buttons' = buttons \cup {c}
    /\ usesPredefinedID' = [usesPredefinedID EXCEPT ![c] = predefinedID > 0]
    /\ ctrlID' = [ctrlID EXCEPT ![c] = ToUint16(predefinedID)]
    /\ UNCHANGED <<appVars, progVars, histVars, hookVars, cbVars, layoutVars, allocated, ctrlPanic, freeFault>>

\* setCtrlID over an allocator that reports exhaustion one id early.
SetCtrlIDOneShort(c) ==
    /\ ~ctrlPanic /\ ~freeFault
    /\ c \in buttons
    /\ IF usesPredefinedID[c]
         THEN UNCHANGED <<allocated, ctrlID, ctrlPanic>>
         ELSE IF Cardinality(FreeIds) <= 1
                THEN ctrlPanic' = TRUE /\ UNCHANGED <<allocated, ctrlID>>
                ELSE \E id \in FreeIds :
                        /\ allocated' = allocated \cup {id}
                        /\ ctrlID' = [ctrlID EXCEPT ![c] = ToUint16(id)]
                        /\ UNCHANGED ctrlPanic
    /\ UNCHANGED <<appVars, progVars, histVars, hookVars, cbVars, layoutVars, buttons, usesPredefinedID,
                   freeFault>>

\* PushButton.setCtrlID with FormBase.allocCtrlID: a button without a predefined
\* id takes an id from the allocator, any id that is free; allocCtrlID panics when
\* the allocator has none.
SetCtrlID(c) ==
    /\ ~ctrlPanic /\ ~freeFault
    /\ c \in buttons
    /\ IF usesPredefinedID[c]
         THEN UNCHANGED <<allocated, ctrlID, ctrlPanic>>
         ELSE IF FreeIds = {}
                THEN ctrlPanic' = TRUE /\ UNCHANGED <<allocated, ctrlID>>
                ELSE \E id \in FreeIds :
                        /\ allocated' = allocated \cup {id}
                        /\ ctrlID' = [ctrlID EXCEPT ![c] = ToUint16(id)]
                        /\ UNCHANGED ctrlPanic
    /\ UNCHANGED <<appVars, progVars, histVars, hookVars, cbVars, layoutVars, buttons, usesPredefinedID,
                   freeFault>>

\* PushButton.clearCtrlID that gives the id back and leaves it on the button.
ClearCtrlIDKeepsId(c) ==
    /\ ~ctrlPanic /\ ~freeFault
    /\ c \in buttons
    /\ IF usesPredefinedID[c]
         THEN UNCHANGED <<allocated, ctrlID>>
         ELSE allocated' = FreeCtrlID(ctrlID[c]) /\ UNCHANGED ctrlID
    /\ UNCHANGED <<appVars, progVars, histVars, hookVars, cbVars, layoutVars, buttons, usesPredefinedID,
                   ctrlPanic, freeFault>>

\* PushButton.clearCtrlID: a button without a predefined id has its id set to 0
\* and the id it had goes to FormBase.freeCtrlID.
ClearCtrlID(c) ==
    /\ ~ctrlPanic /\ ~freeFault
    /\ c \in buttons
    /\ IF usesPredefinedID[c]
         THEN UNCHANGED <<allocated, ctrlID>>
         ELSE /\ ctrlID' = [ctrlID EXCEPT ![c] = 0]
              /\ allocated' = FreeCtrlID(ctrlID[c])
    /\ UNCHANGED <<appVars, progVars, histVars, hookVars, cbVars, layoutVars, buttons, usesPredefinedID,
                   ctrlPanic, freeFault>>

\* FormBase.freeCtrlID called with an id that no button holds: nothing happens for
\* a predefined id, an allocated id goes back to the allocator, and any other id
\* is a fault of IDAllocator.Free.
FreeCtrlIDDirect(id) ==
    /\ ~ctrlPanic /\ ~freeFault
    /\ \A c \in buttons : ctrlID[c] # id
    /\ allocated' = FreeCtrlID(id)
    /\ freeFault' = (id > maxPredefinedCtrlID /\ id \notin allocated)
    /\ UNCHANGED <<appVars, progVars, histVars, hookVars, cbVars, layoutVars, buttons, ctrlID,
                   usesPredefinedID, ctrlPanic>>

IdsNext ==
    \/ \E c \in Controls, predefinedID \in {0} \cup PredefinedIDs :
           NewPushButtonWithOptions(c, predefinedID)
    \/ \E c \in Controls : SetCtrlID(c)
    \/ \E c \in Controls : ClearCtrlID(c)
    \/ \E id \in 0..IdCapacity : FreeCtrlIDDirect(id)

SpecIds == Init /\ [][IdsNext]_vars

\* ================================================================ initialization
\* Application.AllocMessage that gives out firstRegisteredMessage as well.
AllocResultInclusive(n) ==
    IF n > firstRegisteredMessage
      THEN [code |-> WM_NULL, err |-> TRUE, next |-> n]
      ELSE [code |-> n, err |-> FALSE, next |-> n + 1]

\* Application.AllocMessage after its thread assertion, on app.nextMsg = n: the
\* code and error returned and the value app.nextMsg is left with. app.nextMsg is
\* a uint32 and is incremented only below firstRegisteredMessage, so the
\* increment never wraps.
AllocResult(n) ==
    IF n >= firstRegisteredMessage
      THEN [code |-> WM_NULL, err |-> TRUE, next |-> n]
      ELSE [code |-> n, err |-> FALSE, next |-> n + 1]

\* onceWithPreInit: initSlow holds o.mu while the function runs; the only function
\* that takes more than one step here is the body of InitApp.
OnceLocked == \E t \in Threads : initCall[t] = "body"

InitCallsBegun == Len(initLog) + Cardinality({t \in Threads : initCall[t] # "idle"})

InitReturn(t, ret, state) ==
    Append(initLog, [by |-> t, ret |-> ret, state |-> state])

\* InitApp up to the entry of appOnce.Init: when appOnce.init is 0 the caller
\* takes o.mu and enters the function (it waits while another thread holds o.mu);
\* when it is 1 the function is skipped, err and finalInitOutsideOnce are nil and
\* InitApp returns &appSingleton.
InitAppBegin(t) ==
    /\ InitCallsBegun < MaxInitCalls
    /\ initCall[t] = "idle"
    /\ IF onceInit = 0
         THEN /\ ~OnceLocked
              /\ initCall' = [initCall EXCEPT ![t] = "body"]
              /\ initBodyRuns' = initBodyRuns + 1
              /\ UNCHANGED initLog
         ELSE /\ initLog' = InitReturn(t, "singleton", appState)
              /\ UNCHANGED <<initCall, initBodyRuns>>
    /\ UNCHANGED <<extVars, goVars, progVars, histVars, hookVars, cbVars, layoutVars, idVars, msgVars, thrVars,
                   onceInit, appState, walkInit, walkInits, walkInitRan, appended, rejected,
                   appLog>>

\* Application.init inside appOnce.Init, and initSlow's deferred store and unlock:
\* the thread assertion panics on another thread; the three message codes are
\* reserved; a failing InitCommonControlsEx returns an error, which InitApp
\* returns; otherwise app.walkInit is captured and cleared. initSlow stores 1 to
\* o.init however the function ended.
InitAppBody(t, iccOK) ==
    /\ initCall[t] = "body"
    /\ onceInit' = 1
    /\ IF ~IsUIThread(t)
         THEN /\ initLog' = InitReturn(t, "panic", appState)
              /\ initCall' = [initCall EXCEPT ![t] = "idle"]
              /\ UNCHANGED <<msgVars, appState, walkInit, walkInits>>
         ELSE LET a == AllocResult(WM_APP)
                  b == AllocResult(a.next)
                  c == AllocResult(b.next)
              IN /\ syncFuncMsg' = a.code
                 /\ syncLayoutMsg' = b.code
                 /\ cloakChangeMsg' = c.code
                 /\ nextMsg' = c.next
                 /\ UNCHANGED lastAlloc
                 /\ IF iccOK
                      THEN /\ appState' = "ready"
                           /\ walkInits' = walkInit
                           /\ walkInit' = <<>>
                           /\ initCall' = [initCall EXCEPT ![t] = "final"]
                           /\ UNCHANGED initLog
                      ELSE /\ appState' = "failed"
                           /\ initLog' = InitReturn(t, "error", "failed")
                           /\ initCall' = [initCall EXCEPT ![t] = "idle"]
                           /\ UNCHANGED <<walkInit, walkInits>>
    /\ UNCHANGED <<extVars, goVars, progVars, histVars, hookVars, cbVars, layoutVars, idVars, thrVars,
                   initBodyRuns, walkInitRan, appended, rejected, appLog>>

\* finalInitOutsideOnce, run by the InitApp call whose Application.init succeeded:
\* the captured functions run in order, then NewToolTip; InitApp returns its error
\* or &appSingleton.
InitAppFinal(t, toolTipOK) ==
    /\ initCall[t] = "final"
    /\ walkInitRan' = walkInitRan \o walkInits
    /\ walkInits' = <<>>
    /\ appState' = IF toolTipOK THEN "complete" ELSE "notooltip"
    /\ initLog' = InitReturn(t, IF toolTipOK THEN "singleton" ELSE "error", appState')
    /\ initCall' = [initCall EXCEPT ![t] = "idle"]
    /\ UNCHANGED <<extVars, goVars, progVars, histVars, hookVars, cbVars, layoutVars, idVars, msgVars, thrVars,
                   onceInit, initBodyRuns, walkInit, appended, rejected, appLog>>

\* App: appOnce.Init with a function that panics. With appOnce.init = 0 the
\* function runs under o.mu and panics, and initSlow's deferred store leaves
\* appOnce.init = 1; with appOnce.init = 1 App returns &appSingleton.
App(t) ==
    /\ Len(appLog) < MaxAppCalls
    /\ initCall[t] # "body"
    /\ IF onceInit = 0
         THEN /\ ~OnceLocked
              /\ onceInit' = 1
              /\ appLog' = Append(appLog, [res |-> "panic",
                                           inits |-> InitCallsBegun, state |-> appState])
         ELSE /\ appLog' = Append(appLog, [res |-> "singleton",
                                           inits |-> InitCallsBegun, state |-> appState])
              /\ UNCHANGED onceInit
    /\ UNCHANGED <<extVars, goVars, progVars, histVars, hookVars, cbVars, layoutVars, idVars, msgVars, thrVars,
                   initCall, appState, initBodyRuns, walkInit, walkInits, walkInitRan,
                   appended, rejected, initLog>>

RangeOf(q) == {q[i] : i \in 1..Len(q)}

\* AppendToWalkInit whose doPreInit does not take o.mu.
AppendToWalkInitUnlocked(t, fn) ==
    /\ fn \notin RangeOf(appended) \cup rejected
    /\ initCall[t] # "body"
    /\ IF onceInit = 0
         THEN /\ walkInit' = Append(walkInit, fn)
              /\ appended' = Append(appended, fn)
              /\ UNCHANGED rejected
         ELSE /\ rejected' = rejected \cup {fn}
              /\ UNCHANGED <<walkInit, appended>>
    /\ UNCHANGED <<extVars, goVars, progVars, histVars, hookVars, cbVars, layoutVars, idVars, msgVars, thrVars,
                   onceInit, initCall, appState, initBodyRuns, walkInits, walkInitRan,
                   initLog, appLog>>

\* AppendToWalkInit: doPreInit takes o.mu; with appOnce.init = 0 the function is
\* appended to app.walkInit, otherwise doPreInit returns false and
\* AppendToWalkInit panics.
AppendToWalkInit(t, fn) ==
    /\ fn \notin RangeOf(appended) \cup rejected
    /\ initCall[t] # "body"
    /\ ~OnceLocked
    /\ IF onceInit = 0
         THEN /\ walkInit' = Append(walkInit, fn)
              /\ appended' = Append(appended, fn)
              /\ UNCHANGED rejected
         ELSE /\ rejected' = rejected \cup {fn}
              /\ UNCHANGED <<walkInit, appended>>
    /\ UNCHANGED <<extVars, goVars, progVars, histVars, hookVars, cbVars, layoutVars, idVars, msgVars, thrVars,
                   onceInit, initCall, appState, initBodyRuns, walkInits, walkInitRan,
                   initLog, appLog>>

InitNext ==
    \/ \E t \in Threads : InitAppBegin(t)
    \/ \E t \in Threads, iccOK \in BOOLEAN : InitAppBody(t, iccOK)
    \/ \E t \in Threads, toolTipOK \in BOOLEAN : InitAppFinal(t, toolTipOK)
    \/ \E t \in Threads : App(t)
    \/ \E t \in Threads, fn \in WalkFns : AppendToWalkInit(t, fn)

SpecInit == Init /\ [][InitNext]_vars

\* ================================================================ message codes
\* An entry point that does not assert its thread.
AssertUIThreadMissing(t, entry, body) == body

\* An entry point that starts with app.AssertUIThread(): on a thread that is not
\* the owner thread the assertion panics, and nothing of the entry point's body
\* is run.
AssertUIThread(t, entry, body) ==
    IF IsUIThread(t)
      THEN body
      ELSE /\ uiFault' = [by |-> t, entry |-> entry]
           /\ UNCHANGED <<extVars, goVars, progVars, histVars, hookVars, cbVars, layoutVars, idVars, msgVars,
                          initVars, runMsgFilters>>

\* Application.AllocMessage, called by a thread that holds the *Application (it
\* got it from InitApp or App, so appOnce has run).
AllocMessage(t) ==
    /\ onceInit = 1
    /\ initCall[t] = "idle"
    /\ AssertUIThread(t, "AllocMessage",
          LET r == AllocResult(nextMsg)
          IN /\ nextMsg' = r.next
             /\ lastAlloc' = [code |-> r.code, err |-> r.err]
             /\ UNCHANGED <<extVars, goVars, progVars, histVars, hookVars, cbVars, layoutVars, idVars,
                            initVars, thrVars, syncFuncMsg, syncLayoutMsg, cloakChangeMsg>>)

MsgsNext ==
    \/ InitAppBegin(Owner)
    \/ \E iccOK \in BOOLEAN : InitAppBody(Owner, iccOK)
    \/ \E toolTipOK \in BOOLEAN : InitAppFinal(Owner, toolTipOK)
    \/ \E t \in Threads : AllocMessage(t)

SpecMsgs == Init /\ [][MsgsNext]_vars

\* ================================================================ owner thread only
\* Application.EnableMessageFilterHooks after its thread assertion.
EnableMessageFilterHooks(enable) ==
    /\ runMsgFilters' = enable
    /\ UNCHANGED <<extVars, goVars, progVars, histVars, hookVars, cbVars, layoutVars, idVars, msgVars,
                   initVars, uiFault>>

OwnerOnlyEntries ==
    {"Run", "RunModal", "AllocMessage", "AddGlobalPreTranslateHandler",
     "AddPreTranslateHandlerForHWND", "DeletePreTranslateHandlerForHWND",
     "EnableMessageFilterHooks"}

\* A call of one of the entry points that start with app.AssertUIThread(), made by
\* thread t.
EntryCall(t, entry) ==
    \/ /\ entry = "Run"
       /\ AssertUIThread(t, entry, OwnerRun)
    \/ /\ entry = "RunModal"
       /\ AssertUIThread(t, entry,
             \E m \in NextModals : OwnerRunModal(m, NoWindow, FALSE))
    \/ /\ entry = "AllocMessage"
       /\ nextMsg < WM_APP + 3 + MaxAllocCalls
       /\ AllocMessage(t)
    \/ /\ entry = "AddGlobalPreTranslateHandler"
       /\ AssertUIThread(t, entry, \E h \in {"h1", NilHook} : AddGlobalPreTranslateHandler(h))
    \/ /\ entry = "AddPreTranslateHandlerForHWND"
       /\ AssertUIThread(t, entry,
             \E w \in {"hA", NoHwnd}, h \in {"h1", NilHook} :
                 AddPreTranslateHandlerForHWND(w, h))
    \/ /\ entry = "DeletePreTranslateHandlerForHWND"
       /\ AssertUIThread(t, entry, \E w \in Hwnds : DeletePreTranslateHandlerForHWND(w))
    \/ /\ entry = "EnableMessageFilterHooks"
       /\ AssertUIThread(t, entry, \E enable \in BOOLEAN : EnableMessageFilterHooks(enable))

ThreadsNext ==
    \/ InitAppBegin(Owner)
    \/ InitAppBody(Owner, TRUE)
    \/ InitAppFinal(Owner, TRUE)
    \/ \E t \in Threads, entry \in OwnerOnlyEntries : EntryCall(t, entry)

SpecThreads == Init /\ [][ThreadsNext]_vars

\* ================================================================ Go, Exit and Run
\* What the steps below leave alone.
goRest == <<syncFuncs, activeMessageLoops, postedQ, quitCode, enabled, forms, stack,
            crashed, inflight, runResult, submitted, ran, postedFns, cleanFns, quitPosts,
            firstExit, nextFn, nextEvent, overtaken, respected, nestedRunFaults,
            hookVars, cbVars, layoutVars, idVars, msgVars, thrVars, initVars, extVars>>

\* Run up to the main message loop.
RunEntersLoop ==
    /\ runState = "notrun"
    /\ exitPc[Owner] = "idle"
    /\ runState' = "running"
    /\ UNCHANGED <<goRest, goVars, exiting, ctxCancelled, quitPending, exitCalls>>

\* Exit, first statement: app.exiting.CompareAndSwap(false, true). The call that
\* finds the flag set returns at once.
ExitCompareAndSwap(t) ==
    /\ exitCalls < MaxExitCalls
    /\ exitPc[t] = "idle"
    /\ IsUIThread(t) => runState \in {"notrun", "running"}
    /\ exitCalls' = exitCalls + 1
    /\ IF exiting
         THEN exitReturned' = TRUE /\ UNCHANGED <<exiting, exitPc>>
         ELSE /\ exiting' = TRUE
              /\ exitPc' = [exitPc EXCEPT ![t] = "won"]
              /\ UNCHANGED exitReturned
    /\ UNCHANGED <<goRest, waitGroup, goCalls, quitSync, ctxCancelled, quitPending, runState>>

\* Exit that goes on without cancelling the context.
ExitCancelMissing(t) ==
    /\ exitPc[t] = "won"
    /\ exitPc' = [exitPc EXCEPT ![t] = "cancelled"]
    /\ UNCHANGED <<goRest, waitGroup, goCalls, exitReturned, quitSync, exiting, ctxCancelled,
                   quitPending, runState, exitCalls>>

\* Exit, second statement: app.ctxCancel().
ExitCancel(t) ==
    /\ exitPc[t] = "won"
    /\ ctxCancelled' = TRUE
    /\ exitPc' = [exitPc EXCEPT ![t] = "cancelled"]
    /\ UNCHANGED <<goRest, waitGroup, goCalls, exitReturned, quitSync, exiting, quitPending,
                   runState, exitCalls>>

\* Exit, the rest: postQuitMsg is called on the owner thread and handed to
\* Synchronize on any other; Exit returns.
ExitPostQuit(t) ==
    /\ exitPc[t] = "cancelled"
    /\ IF IsUIThread(t)
         THEN quitPending' = TRUE /\ UNCHANGED quitSync
         ELSE quitSync' = TRUE /\ UNCHANGED quitPending
    /\ exitPc' = [exitPc EXCEPT ![t] = "idle"]
    /\ exitReturned' = TRUE
    /\ UNCHANGED <<goRest, waitGroup, goCalls, exiting, ctxCancelled, runState, exitCalls>>

\* The main loop runs the synchronized postQuitMsg.
LoopRunsPostQuit ==
    /\ runState = "running"
    /\ exitPc[Owner] = "idle"
    /\ quitSync
    /\ quitSync' = FALSE
    /\ quitPending' = TRUE
    /\ UNCHANGED <<goRest, waitGroup, goCalls, exitPc, exitReturned, exiting, ctxCancelled,
                   runState, exitCalls>>

\* The main loop receives the quit message: runMainMessageLoop returns and Run
\* goes on to app.waitGroup.Wait().
LoopQuits ==
    /\ runState = "running"
    /\ exitPc[Owner] = "idle"
    /\ quitPending
    /\ quitPending' = FALSE
    /\ runState' = "waiting"
    /\ UNCHANGED <<goRest, goVars, exiting, ctxCancelled, exitCalls>>

\* Run that returns without app.waitGroup.Wait().
RunReturnsWithoutWait ==
    /\ runState = "waiting"
    /\ runState' = "returned"
    /\ UNCHANGED <<goRest, goVars, exiting, ctxCancelled, quitPending, exitCalls>>

\* Run, app.waitGroup.Wait() and the return: Wait returns when the counter is 0.
RunWaitReturns ==
    /\ runState = "waiting"
    /\ waitGroup = 0
    /\ runState' = "returned"
    /\ UNCHANGED <<goRest, goVars, exiting, ctxCancelled, quitPending, exitCalls>>

GoStep(i, pc) == [goCalls EXCEPT ![i].pc = pc]

\* Go, first statement: it returns when app.ctx.Err() is not nil.
GoCheck(i) ==
    /\ goCalls[i].pc = "unused"
    /\ i > 1 => goCalls[i - 1].pc # "unused"
    /\ goCalls' = [goCalls EXCEPT ![i] = [pc |-> IF ctxCancelled THEN "skipped" ELSE "checked",
                                          late |-> exitReturned]]
    /\ UNCHANGED <<goRest, waitGroup, exitPc, exitReturned, quitSync, exiting, ctxCancelled,
                   quitPending, runState, exitCalls>>

\* Go: app.waitGroup.Add(1) and the go statement.
GoAdd(i) ==
    /\ goCalls[i].pc = "checked"
    /\ waitGroup' = waitGroup + 1
    /\ goCalls' = GoStep(i, "spawned")
    /\ UNCHANGED <<goRest, exitPc, exitReturned, quitSync, exiting, ctxCancelled,
                   quitPending, runState, exitCalls>>

\* The goroutine of Go: with app.ctx.Err() not nil it returns (the deferred Done),
\* otherwise it calls f.
GoroutineCheck(i) ==
    /\ goCalls[i].pc = "spawned"
    /\ IF ctxCancelled
         THEN waitGroup' = waitGroup - 1 /\ goCalls' = GoStep(i, "skipped")
         ELSE goCalls' = GoStep(i, "running") /\ UNCHANGED waitGroup
    /\ UNCHANGED <<goRest, exitPc, exitReturned, quitSync, exiting, ctxCancelled,
                   quitPending, runState, exitCalls>>

\* f returns, and the goroutine's deferred app.waitGroup.Done().
FReturns(i) ==
    /\ goCalls[i].pc = "running"
    /\ waitGroup' = waitGroup - 1
    /\ goCalls' = GoStep(i, "done")
    /\ UNCHANGED <<goRest, exitPc, exitReturned, quitSync, exiting, ctxCancelled,
                   quitPending, runState, exitCalls>>

GoNext ==
    \/ RunEntersLoop
    \/ \E t \in Threads : ExitCompareAndSwap(t)
    \/ \E t \in Threads : ExitCancel(t)
    \/ \E t \in Threads : ExitPostQuit(t)
    \/ LoopRunsPostQuit
    \/ LoopQuits
    \/ RunWaitReturns
    \/ \E i \in 1..MaxGoCalls : GoCheck(i)
    \/ \E i \in 1..MaxGoCalls : GoAdd(i)
    \/ \E i \in 1..MaxGoCalls : GoroutineCheck(i)
    \/ \E i \in 1..MaxGoCalls : FReturns(i)

SpecGo == Init /\ [][GoNext]_vars

\* The threads and goroutines are scheduled, the owner thread's loop keeps
\* pumping, and a function started through Go returns once the context is
\* cancelled.
SpecGoFair ==
    /\ SpecGo
    /\ \A t \in Threads : WF_vars(ExitCancel(t)) /\ WF_vars(ExitPostQuit(t))
    /\ WF_vars(LoopRunsPostQuit)
    /\ WF_vars(LoopQuits)
    /\ WF_vars(RunWaitReturns)
    /\ \A i \in 1..MaxGoCalls :
          WF_vars(GoroutineCheck(i)) /\ WF_vars(ctxCancelled /\ FReturns(i))

\* ================================================================ modal loop of a dialog
progRest == <<exiting, ctxCancelled, syncFuncs, postedQ, quitPending, quitCode, enabled,
              forms, stack, crashed, inflight, runState, runResult>>

modalRest == <<progRest, histVars, cbVars, layoutVars, idVars, msgVars, thrVars, initVars,
               goVars, globalPreTranslateHandlers, lastMsg, hookFaults, lockVars, posVars>>

\* ModalCond with a loop that does not test modal.Running().
ModalCondIgnoresPredicate ==
    /\ modalPc = "cond"
    /\ modalPc' = "pop"
    /\ UNCHANGED <<modalRest, activeMessageLoops, perWindowPreTranslateHandlers, started,
                   isModal, dlgWnd, ownerWnd, ownerWas, deferred, msgQ, sentClose, wmQuit,
                   curDest, modalMsg, exitBy, quitReposts, injected>>

\* The deferred calls of RunModal in the order in which they run when it
\* returns, the one deferred last first: the owner is enabled again when
\* EnableWindow(ohwnd, false) found it enabled, then modal.Dispose(), then
\* app.activeMessageLoops--.
RunModalDefersDisposeFirst(reenable) ==
    <<"dispose">> \o (IF reenable THEN <<"enable">> ELSE <<>>) \o <<"depth">>

RunModalDefers(reenable) ==
    (IF reenable THEN <<"enable">> ELSE <<>>) \o <<"dispose", "depth">>

EnterModeKeepsHandler(handlers) == handlers

\* DialogEx.EnterMode: the handler keyed by the dialog's handle is deleted.
EnterMode(handlers) == [handlers EXCEPT ![DlgHwnd] = NilHook]

\* DialogEx.dlgProc for WM_DESTROY: a dialog that did not enter mode deletes
\* the handler keyed by its handle.
DlgProcDestroy(handlers, modal) ==
    IF ~modal THEN [handlers EXCEPT ![DlgHwnd] = NilHook] ELSE handlers

\* The posted messages left in the queue once the window wnd is destroyed.
Flush(q, wnd) == SelectSeq(q, LAMBDA d : d # wnd)

\* FormBase.WndProc for WM_CLOSE, unless a Closing handler cancels it:
\* started is cleared and the form disposed, which destroys its window.
WmClose(canceled) ==
    IF dlgWnd = "exists" /\ ~canceled
    THEN [started |-> FALSE, dlgWnd |-> "destroyed",
          handlers |-> DlgProcDestroy(perWindowPreTranslateHandlers, isModal),
          msgQ |-> Flush(msgQ, DlgHwnd)]
    ELSE [started |-> started, dlgWnd |-> dlgWnd,
          handlers |-> perWindowPreTranslateHandlers, msgQ |-> msgQ]

\* PeekMessage first delivers the messages sent to the thread's windows.
DeliverSent(canceled) ==
    IF sentClose THEN WmClose(canceled)
    ELSE [started |-> started, dlgWnd |-> dlgWnd,
          handlers |-> perWindowPreTranslateHandlers, msgQ |-> msgQ]

\* NewDialogEx: the window is created and WM_INITDIALOG handled before
\* CreateDialogIndirectParam returns; dlgProc registers the dialog as the
\* handler keyed by its handle. When dialogExProc cannot attach the dialog to
\* the window it destroys the window and dlgProc never runs.
NewDialogEx(initOK) ==
    /\ modalPc = "idle" /\ dlgWnd = "none"
    /\ IF initOK
       THEN /\ dlgWnd' = "exists"
            /\ perWindowPreTranslateHandlers' =
                  [perWindowPreTranslateHandlers EXCEPT ![DlgHwnd] = DlgHook]
       ELSE /\ dlgWnd' = "destroyed"
            /\ UNCHANGED perWindowPreTranslateHandlers
    /\ UNCHANGED <<modalRest, activeMessageLoops, modalPc, started, isModal, ownerWnd, ownerWas,
                   deferred, msgQ, sentClose, wmQuit, curDest, modalMsg, exitBy,
                   quitReposts, injected>>

\* FormBase.Show: start() sets started.
Show ==
    /\ modalPc = "idle" /\ dlgWnd = "exists" /\ ~started
    /\ started' = TRUE
    /\ UNCHANGED <<modalRest, activeMessageLoops, perWindowPreTranslateHandlers, modalPc,
                   isModal, dlgWnd, ownerWnd, ownerWas, deferred, msgQ, sentClose, wmQuit, curDest,
                   modalMsg, exitBy, quitReposts, injected>>

\* DialogEx.Cancel on a dialog that is not in a modal loop: Dispose destroys
\* the window, and dlgProc handles WM_DESTROY.
Cancel ==
    /\ modalPc = "idle" /\ dlgWnd = "exists"
    /\ dlgWnd' = "destroyed"
    /\ perWindowPreTranslateHandlers' = DlgProcDestroy(perWindowPreTranslateHandlers, isModal)
    /\ msgQ' = Flush(msgQ, DlgHwnd)
    /\ sentClose' = FALSE
    /\ UNCHANGED <<modalRest, activeMessageLoops, modalPc, started, isModal, ownerWnd, ownerWas,
                   deferred, wmQuit, curDest, modalMsg, exitBy, quitReposts, injected>>

\* RunModal up to its loop: the depth is incremented, the calls are deferred,
\* the owner, if there is one, is disabled, and modal.EnterMode() is called.
RunModal(owner) ==
    /\ modalPc = "idle" /\ dlgWnd = "exists"
    /\ activeMessageLoops' = activeMessageLoops + 1
    /\ deferred' = RunModalDefers(owner = "enabled")
    /\ ownerWas' = owner
    /\ ownerWnd' = IF owner = "none" THEN "none" ELSE "disabled"
    /\ perWindowPreTranslateHandlers' = EnterMode(perWindowPreTranslateHandlers)
    /\ isModal' = TRUE
    /\ modalPc' = "cond"
    /\ UNCHANGED <<modalRest, started, dlgWnd, msgQ, sentClose, wmQuit, curDest, modalMsg,
                   exitBy, quitReposts, injected>>

\* for modal.Running()
ModalCond ==
    /\ modalPc = "cond"
    /\ IF started
       THEN modalPc' = "pop" /\ UNCHANGED exitBy
       ELSE modalPc' = "defers" /\ exitBy' = "predicate"
    /\ UNCHANGED <<modalRest, activeMessageLoops, perWindowPreTranslateHandlers, started,
                   isModal, dlgWnd, ownerWnd, ownerWas, deferred, msgQ, sentClose, wmQuit, curDest,
                   modalMsg, quitReposts, injected>>

\* popMessage: PeekMessage with PM_REMOVE delivers the sent messages and then
\* takes a posted message, if there is one; WM_QUIT, which comes when no
\* other message is queued, is posted again and ends RunModal.
PopMessage(canceled) ==
    /\ modalPc = "pop"
    /\ \E a \in {DeliverSent(canceled)} :
          /\ started' = a.started
          /\ dlgWnd' = a.dlgWnd
          /\ perWindowPreTranslateHandlers' = a.handlers
          /\ sentClose' = FALSE
          /\ IF a.msgQ # <<>>
             THEN /\ curDest' = Head(a.msgQ)
                  /\ msgQ' = Tail(a.msgQ)
                  /\ modalPc' = "got"
                  /\ UNCHANGED <<exitBy, quitReposts>>
             ELSE /\ msgQ' = a.msgQ
                  /\ UNCHANGED curDest
                  /\ IF wmQuit
                     THEN /\ quitReposts' = quitReposts + 1
                          /\ exitBy' = "quit"
                          /\ modalPc' = "defers"
                     ELSE /\ modalPc' = "recheck"
                          /\ UNCHANGED <<exitBy, quitReposts>>
    /\ UNCHANGED <<modalRest, activeMessageLoops, isModal, ownerWnd, ownerWas, deferred, wmQuit,
                   modalMsg, injected>>

ModalOffer == [level |-> "modal", key |-> DlgHwnd, hook |-> DlgHook]

RunModalBodyLikeMainLoop(dest, filtered, taken) ==
    IF filtered
    THEN [offers |-> <<>>, consumed |-> FALSE, dispatched |-> 0, postDispatch |-> <<>>]
    ELSE LET r == RunPreTranslateHandler(dest, [h \in Hooks \cup {SelfHook} |-> taken],
                                         CHOOSE o \in Orders(RegisteredKeys) : TRUE)
         IN  IF r.consumed
             THEN [offers |-> r.offers, consumed |-> TRUE, dispatched |-> 0,
                   postDispatch |-> <<>>]
             ELSE [offers |-> r.offers, consumed |-> FALSE, dispatched |-> 1,
                   postDispatch |-> RunPostDispatchHandler(dest)]

\* The rest of the loop body of RunModal for a message that is not WM_QUIT:
\* a message the message filters take is dropped; otherwise the message is
\* offered to modal.OnPreTranslate and, unless that handles it, translated and
\* dispatched, after which the modal's OnPostDispatch is called.
RunModalBody(dest, filtered, taken) ==
    IF filtered
    THEN [offers |-> <<>>, consumed |-> FALSE, dispatched |-> 0, postDispatch |-> <<>>]
    ELSE IF taken
         THEN [offers |-> <<ModalOffer>>, consumed |-> TRUE, dispatched |-> 0,
               postDispatch |-> <<>>]
         ELSE [offers |-> <<ModalOffer>>, consumed |-> FALSE, dispatched |-> 1,
               postDispatch |-> <<DlgHwnd>>]

\* The loop body for the message popMessage returned; the handlers that run
\* for it may close the dialog.
ModalHandle(filtered, taken, closes) ==
    /\ modalPc = "got"
    /\ filtered => runMsgFilters
    /\ closes => ~filtered /\ dlgWnd = "exists"
    /\ \E r \in {RunModalBody(curDest, filtered, taken)} :
          modalMsg' = [dest |-> curDest, handled |-> TRUE, filtered |-> filtered,
                       offers |-> r.offers, consumed |-> r.consumed,
                       dispatched |-> r.dispatched, postDispatch |-> r.postDispatch,
                       running |-> started]
    /\ \E a \in {IF closes THEN WmClose(FALSE)
                 ELSE [started |-> started, dlgWnd |-> dlgWnd,
                       handlers |-> perWindowPreTranslateHandlers, msgQ |-> msgQ]} :
          /\ started' = a.started
          /\ dlgWnd' = a.dlgWnd
          /\ perWindowPreTranslateHandlers' = a.handlers
          /\ msgQ' = a.msgQ
    /\ sentClose' = (sentClose /\ ~closes)
    /\ curDest' = NoHwnd
    /\ modalPc' = "cond"
    /\ UNCHANGED <<modalRest, activeMessageLoops, isModal, ownerWnd, ownerWas, deferred, wmQuit,
                   exitBy, quitReposts, injected>>

ModalRecheckAlwaysWaits ==
    /\ modalPc = "recheck"
    /\ modalPc' = "wait"
    /\ UNCHANGED <<modalRest, activeMessageLoops, perWindowPreTranslateHandlers, started,
                   isModal, dlgWnd, ownerWnd, ownerWas, deferred, msgQ, sentClose, wmQuit, curDest,
                   modalMsg, exitBy, quitReposts, injected>>

\* else if modal.Running() { waitForNextMessage() }
ModalRecheck ==
    /\ modalPc = "recheck"
    /\ modalPc' = IF started THEN "wait" ELSE "cond"
    /\ UNCHANGED <<modalRest, activeMessageLoops, perWindowPreTranslateHandlers, started,
                   isModal, dlgWnd, ownerWnd, ownerWas, deferred, msgQ, sentClose, wmQuit, curDest,
                   modalMsg, exitBy, quitReposts, injected>>

\* MsgWaitForMultipleObjectsEx returns: input is available, for this thread or
\* for a thread whose input queue is attached to this one's.
WaitWakes ==
    /\ modalPc = "wait"
    /\ modalPc' = "waitSent"
    /\ UNCHANGED <<modalRest, activeMessageLoops, perWindowPreTranslateHandlers, started,
                   isModal, dlgWnd, ownerWnd, ownerWas, deferred, msgQ, sentClose, wmQuit, curDest,
                   modalMsg, exitBy, quitReposts, injected>>

\* areSentMessagesPending: a pending sent message ends the wait undelivered.
WaitSentPending ==
    /\ modalPc = "waitSent"
    /\ modalPc' = IF sentClose THEN "cond" ELSE "waitPosted"
    /\ UNCHANGED <<modalRest, activeMessageLoops, perWindowPreTranslateHandlers, started,
                   isModal, dlgWnd, ownerWnd, ownerWas, deferred, msgQ, sentClose, wmQuit, curDest,
                   modalMsg, exitBy, quitReposts, injected>>

\* arePostedMessagesPending: PeekMessage with PM_NOREMOVE delivers a message
\* sent in the meantime and reports whether a posted message is queued; if
\* none is, the wait goes on.
WaitPostedPending(canceled) ==
    /\ modalPc = "waitPosted"
    /\ \E a \in {DeliverSent(canceled)} :
          /\ started' = a.started
          /\ dlgWnd' = a.dlgWnd
          /\ perWindowPreTranslateHandlers' = a.handlers
          /\ msgQ' = a.msgQ
          /\ modalPc' = IF a.msgQ # <<>> \/ wmQuit THEN "cond" ELSE "wait"
    /\ sentClose' = FALSE
    /\ UNCHANGED <<modalRest, activeMessageLoops, isModal, ownerWnd, ownerWas, deferred, wmQuit,
                   curDest, modalMsg, exitBy, quitReposts, injected>>

\* RunModal returns: the deferred calls run one after the other.
RunDeferred ==
    /\ modalPc = "defers"
    /\ deferred' = Tail(deferred)
    /\ modalPc' = IF Tail(deferred) = <<>> THEN "returned" ELSE "defers"
    /\ ownerWnd' = IF Head(deferred) = "enable" THEN "enabled" ELSE ownerWnd
    /\ IF Head(deferred) = "dispose"
       THEN /\ dlgWnd' = "destroyed"
            /\ perWindowPreTranslateHandlers' =
                  IF dlgWnd = "exists"
                  THEN DlgProcDestroy(perWindowPreTranslateHandlers, isModal)
                  ELSE perWindowPreTranslateHandlers
            /\ msgQ' = Flush(msgQ, DlgHwnd)
            /\ sentClose' = FALSE
       ELSE UNCHANGED <<dlgWnd, perWindowPreTranslateHandlers, msgQ, sentClose>>
    /\ activeMessageLoops' =
          IF Head(deferred) = "depth" THEN activeMessageLoops - 1 ELSE activeMessageLoops
    /\ UNCHANGED <<modalRest, started, isModal, ownerWas, wmQuit, curDest, modalMsg, exitBy,
                   quitReposts, injected>>

\* A message is posted to a window of the owner thread.
PostModalMessage(dest) ==
    /\ modalPc # "returned" /\ injected < MaxModalMsgs
    /\ dest = DlgHwnd => dlgWnd = "exists"
    /\ msgQ' = Append(msgQ, dest)
    /\ injected' = injected + 1
    /\ UNCHANGED <<modalRest, activeMessageLoops, perWindowPreTranslateHandlers, modalPc,
                   started, isModal, dlgWnd, ownerWnd, ownerWas, deferred, sentClose, wmQuit, curDest,
                   modalMsg, exitBy, quitReposts>>

\* FormBase.Close on another thread: WM_CLOSE is sent to the dialog.
SendClose ==
    /\ modalPc # "returned" /\ injected < MaxModalMsgs
    /\ dlgWnd = "exists" /\ ~sentClose
    /\ sentClose' = TRUE
    /\ injected' = injected + 1
    /\ UNCHANGED <<modalRest, activeMessageLoops, perWindowPreTranslateHandlers, modalPc,
                   started, isModal, dlgWnd, ownerWnd, ownerWas, deferred, msgQ, wmQuit, curDest,
                   modalMsg, exitBy, quitReposts>>

\* Exit posts WM_QUIT to the owner thread.
PostModalQuit ==
    /\ modalPc # "returned" /\ injected < MaxModalMsgs
    /\ ~wmQuit
    /\ wmQuit' = TRUE
    /\ injected' = injected + 1
    /\ UNCHANGED <<modalRest, activeMessageLoops, perWindowPreTranslateHandlers, modalPc,
                   started, isModal, dlgWnd, ownerWnd, ownerWas, deferred, msgQ, sentClose, curDest,
                   modalMsg, exitBy, quitReposts>>

ModalNext ==
    \/ \E ok \in BOOLEAN : NewDialogEx(ok)
    \/ Show
    \/ Cancel
    \/ \E o \in {"none", "enabled", "disabled"} : RunModal(o)
    \/ ModalCond
    \/ \E c \in BOOLEAN : PopMessage(c)
    \/ \E f, t, c \in BOOLEAN : ModalHandle(f, t, c)
    \/ ModalRecheck
    \/ WaitWakes
    \/ WaitSentPending
    \/ \E c \in BOOLEAN : WaitPostedPending(c)
    \/ RunDeferred
    \/ \E d \in {"hA", DlgHwnd} : PostModalMessage(d)
    \/ SendClose
    \/ PostModalQuit
    \/ modalPc = "idle" /\ AddGlobalPreTranslateHandler("h1")
    \/ modalPc = "idle" /\ AddPreTranslateHandlerForHWND("hA", "h1")
    \/ modalPc = "idle" /\ ~runMsgFilters /\ EnableMessageFilterHooks(TRUE)

SpecModal == Init /\ [][ModalNext]_vars

\* The owner thread keeps running: RunModal's own statements are not delayed
\* for ever.
SpecModalFair ==
    SpecModal /\ WF_vars(ModalCond) /\ WF_vars(RunDeferred)

\* ================================================================ the locks of the bridge
lockRest == <<progVars, histVars, hookVars, cbVars, layoutVars, idVars, msgVars, thrVars,
              initVars, goVars, modalVars, posVars>>

\* The owner thread is inside a callable run by runSyncFunc, or inside the
\* application of a layout result or its completion functions run by
\* runSyncLayout.
InAppCode == drainPc.pc \in {"fn", "apply", "complete"}

\* Workers call at any time; the owner thread calls from the code a drain runs.
CanCall(t) == callPc[t].pc = "idle" /\ (t = Owner => InAppCode)

\* Synchronize (lock "funcs") or synchronizeLayout (lock "layout") is called
\* and reaches Lock().
BridgeCall(t, l) ==
    /\ CanCall(t) /\ Len(lkItems) < MaxLockCalls
    /\ callPc' = [callPc EXCEPT ![t] = [pc |-> "want", lock |-> l]]
    /\ lkItems' = Append(lkItems, [lock |-> l, by |-> t, qAt |-> 0, pos |-> 0, rAt |-> 0])
    /\ UNCHANGED <<lockRest, mutex, drainPc, lkFuncs, lkResult, lkCur, lkMsgs, drains, lkRan>>

\* The callable or the result a thread is handing over: the last one it called with.
ItemOf(t) ==
    CHOOSE i \in 1..Len(lkItems) :
        /\ lkItems[i].by = t
        /\ \A j \in 1..Len(lkItems) : lkItems[j].by = t => j <= i

Enqueued(l) == { i \in 1..Len(lkItems) : lkItems[i].lock = l /\ lkItems[i].pos > 0 }

\* Lock() returns and, under the lock, the callable is appended to syncFuncs,
\* or the result becomes the form's entry of layoutResultsByForm.
BridgeAcquire(t) ==
    /\ callPc[t].pc = "want"
    /\ mutex[callPc[t].lock] = NoHolder
    /\ mutex' = [mutex EXCEPT ![callPc[t].lock] = t]
    /\ callPc' = [callPc EXCEPT ![t].pc = "locked"]
    /\ IF callPc[t].lock = "funcs"
       THEN lkFuncs' = Append(lkFuncs, ItemOf(t)) /\ UNCHANGED lkResult
       ELSE lkResult' = ItemOf(t) /\ UNCHANGED lkFuncs
    /\ lkItems' = [lkItems EXCEPT ![ItemOf(t)].qAt = drains,
                                  ![ItemOf(t)].pos = Cardinality(Enqueued(callPc[t].lock)) + 1]
    /\ UNCHANGED <<lockRest, drainPc, lkCur, lkMsgs, drains, lkRan>>

\* Unlock()
BridgeRelease(t) ==
    /\ callPc[t].pc = "locked"
    /\ mutex' = [mutex EXCEPT ![callPc[t].lock] = NoHolder]
    /\ callPc' = [callPc EXCEPT ![t].pc = "post"]
    /\ UNCHANGED <<lockRest, drainPc, lkFuncs, lkResult, lkCur, lkMsgs, drains, lkItems, lkRan>>

\* PostMessage of syncFuncMsg or syncLayoutMsg; the call returns.
BridgePost(t) ==
    /\ callPc[t].pc = "post"
    /\ lkMsgs' = [lkMsgs EXCEPT ![callPc[t].lock] = @ + 1]
    /\ callPc' = [callPc EXCEPT ![t] = NoCall]
    /\ UNCHANGED <<lockRest, mutex, drainPc, lkFuncs, lkResult, lkCur, drains, lkItems, lkRan>>

\* appMsgWndProc gets a wakeup and runSyncFunc or runSyncLayout takes its
\* lock: the head of syncFuncs is taken off, or the map is copied and cleared.
DrainLock(l) ==
    /\ drainPc.pc = "idle" /\ callPc[Owner].pc = "idle"
    /\ lkMsgs[l] > 0
    /\ mutex[l] = NoHolder
    /\ lkMsgs' = [lkMsgs EXCEPT ![l] = @ - 1]
    /\ mutex' = [mutex EXCEPT ![l] = Owner]
    /\ drains' = drains + 1
    /\ drainPc' = [pc |-> "locked", lock |-> l]
    /\ IF l = "funcs"
       THEN /\ lkCur' = IF lkFuncs = <<>> THEN 0 ELSE Head(lkFuncs)
            /\ lkFuncs' = IF lkFuncs = <<>> THEN <<>> ELSE Tail(lkFuncs)
            /\ UNCHANGED lkResult
       ELSE /\ lkCur' = lkResult
            /\ lkResult' = 0
            /\ UNCHANGED lkFuncs
    /\ UNCHANGED <<lockRest, callPc, lkItems, lkRan>>

DrainUnlockKeepsLock ==
    /\ drainPc.pc = "locked"
    /\ drainPc' = IF lkCur = 0 THEN NoDrain
                  ELSE [drainPc EXCEPT !.pc = IF drainPc.lock = "funcs" THEN "fn" ELSE "apply"]
    /\ UNCHANGED <<lockRest, mutex, callPc, lkFuncs, lkResult, lkCur, lkMsgs, drains, lkItems,
                   lkRan>>

\* The drain unlocks before it runs anything: with nothing taken it returns,
\* otherwise it goes on to call fn, or to apply the results.
DrainUnlock ==
    /\ drainPc.pc = "locked"
    /\ mutex' = [mutex EXCEPT ![drainPc.lock] = NoHolder]
    /\ drainPc' = IF lkCur = 0 THEN NoDrain
                  ELSE [drainPc EXCEPT !.pc = IF drainPc.lock = "funcs" THEN "fn" ELSE "apply"]
    /\ UNCHANGED <<lockRest, callPc, lkFuncs, lkResult, lkCur, lkMsgs, drains, lkItems, lkRan>>

\* runSyncLayout: the results are applied; the completion functions come next.
DrainApplied ==
    /\ drainPc.pc = "apply" /\ callPc[Owner].pc = "idle"
    /\ drainPc' = [drainPc EXCEPT !.pc = "complete"]
    /\ UNCHANGED <<lockRest, mutex, callPc, lkFuncs, lkResult, lkCur, lkMsgs, drains, lkItems,
                   lkRan>>

\* fn returns, or the last completion function does: the drain returns.
DrainReturns ==
    /\ drainPc.pc \in {"fn", "complete"} /\ callPc[Owner].pc = "idle"
    /\ lkRan' = Append(lkRan, lkCur)
    /\ lkItems' = [lkItems EXCEPT ![lkCur].rAt = drains]
    /\ lkCur' = 0
    /\ drainPc' = NoDrain
    /\ UNCHANGED <<lockRest, mutex, callPc, lkFuncs, lkResult, lkMsgs, drains>>

LocksNext ==
    \/ \E t \in LockThreads, l \in Locks : BridgeCall(t, l)
    \/ \E t \in LockThreads : BridgeAcquire(t)
    \/ \E t \in LockThreads : BridgeRelease(t)
    \/ \E t \in LockThreads : BridgePost(t)
    \/ \E l \in Locks : DrainLock(l)
    \/ DrainUnlock
    \/ DrainApplied
    \/ DrainReturns

SpecLocks == Init /\ [][LocksNext]_vars

\* ================================================================ MinWin position changes
posRest == <<progVars, histVars, hookVars, cbVars, layoutVars, idVars, msgVars, thrVars,
             initVars, goVars, modalVars, lockVars>>

\* The coordinates a WINDOWPOS carries here; int32 values, which int() keeps.
Coords == {-1, 0, 2}

WindowPositions == [x : Coords, y : Coords, noMove : BOOLEAN]

\* MinWin.WndProc for WM_WINDOWPOSCHANGED: what is published to the handlers
\* of Moved for the WINDOWPOS wp; nothing when SWP_NOMOVE is set.
WndProcWindowPosChanged(wp) ==
    IF ~wp.noMove THEN <<[X |-> wp.x, Y |-> wp.x]>> ELSE <<>>

\* The window procedure of a MinWin gets WM_WINDOWPOSCHANGED.
WmWindowPosChanged(wp) ==
    /\ Len(windowPos) < MaxMoves
    /\ windowPos' = Append(windowPos, wp)
    /\ movePublished' = Append(movePublished, WndProcWindowPosChanged(wp))
    /\ UNCHANGED posRest

MovedNext == \E wp \in WindowPositions : WmWindowPosChanged(wp)

SpecMoved == Init /\ [][MovedNext]_vars

\* ================================================================ claims
RanSeq == [i \in 1..Len(ran) |-> ran[i].id]
QueuedSeq == [i \in 1..Len(syncFuncs) |-> syncFuncs[i].id]
SubmittedSeq == [i \in 1..Len(submitted) |-> submitted[i].id]

\* C1: every callable handed to Synchronize, by whatever thread, is executed
\* at most once, on the owner thread, in the order of submission; none is
\* dropped, and none is left in the queue once the running loop has drained
\* its messages and no Synchronize call is under way.
C1_SynchronizeFifoOnce ==
    /\ \A i \in 1..Len(ran) : ran[i].by = Owner
    /\ RanSeq \o QueuedSeq = SubmittedSeq
    /\ (CanFetch /\ postedQ = <<>> /\ \A t \in Threads : inflight[t] = 0)
          => syncFuncs = <<>>

C1_Witness ==
    /\ Len(ran) >= 2
    /\ \E i, j \in 1..Len(ran) : i < j /\ submitted[i].by # submitted[j].by
    /\ \E i \in 1..Len(ran) : submitted[i].by \in Workers

\* Two callables fn1, fn2 that a non-owner thread submitted back to back,
\* the first of them while the loop was idle.
BackToBack(f1, f2) ==
    /\ f1.kind = "fn" /\ f2.kind = "fn"
    /\ f1.by \in Workers /\ f2.by = f1.by
    /\ f2.prev = f1.id
    /\ f1.idle

InOrder(f1, f2) ==
    f2.id \in RanIds =>
        \E i, j \in 1..Len(ran) : i < j /\ ran[i].id = f1.id /\ ran[j].id = f2.id

\* C2, as claimed: fn1 and fn2 submitted back to back from a non-owner thread
\* while the loop is idle run in the order fn1, fn2, and no event enqueued
\* after them is handled before both have run.
C2_BackToBackBeforeLaterEvents ==
    \A a, b \in 1..Len(submitted) :
        BackToBack(submitted[a], submitted[b]) =>
            /\ InOrder(submitted[a], submitted[b])
            /\ submitted[a].id \notin overtaken
            /\ submitted[b].id \notin overtaken

\* C2, amended: the same, provided that no other thread is between the enqueue
\* and the post step of a Synchronize call at the moment the wakeup of fn2 is
\* posted.
C2_BackToBackUndisturbed ==
    \A a, b \in 1..Len(submitted) :
        BackToBack(submitted[a], submitted[b]) =>
            /\ InOrder(submitted[a], submitted[b])
            /\ submitted[a].id \notin overtaken
            /\ (submitted[b].id \in cleanFns => submitted[b].id \notin overtaken)

C2_Witness ==
    \E a, b \in 1..Len(submitted) :
        /\ BackToBack(submitted[a], submitted[b])
        /\ submitted[b].id \in cleanFns
        /\ submitted[a].id \in respected /\ submitted[b].id \in respected

\* Quit signals posted on behalf of Exit (as opposed to popMessage's re-posts).
ExitPosts == { i \in 1..Len(quitPosts) : quitPosts[i].origin = "exit" }

\* Callables that Exit enqueued to post the quit signal.
QuitClosures == { i \in 1..Len(submitted) : submitted[i].kind = "quit" }

\* C3: however many times and from whichever threads Exit is called, the quit
\* signal is posted for the first call only, with that call's exit code (as
\* the 32-bit quit signal carries it), the context is cancelled by then, and a
\* call that finds the application already exiting changes nothing.
C3_ExitIdempotent ==
    /\ [](/\ Cardinality(ExitPosts) <= 1
          /\ \A i \in ExitPosts : quitPosts[i].code = ToInt32(firstExit.code)
          /\ exiting <=> firstExit.by # "none"
          /\ exiting => ctxCancelled
          /\ firstExit.by = Owner => Cardinality(ExitPosts) = 1
          /\ (\E i \in QuitClosures : submitted[i].id \in RanIds)
                => Cardinality(ExitPosts) = 1)
    /\ [][(exiting /\ exitCalls' # exitCalls) => progVars' = progVars]_vars

C3_Witness ==
    /\ exitCalls >= 2
    /\ firstExit.by \in Workers
    /\ Cardinality(ExitPosts) = 1

\* C4, as claimed: once Run has returned on the quit signal, its result is the
\* exit code that was passed to the first Exit call.
C4_RunReturnsExitCode ==
    runState = "returned" => runResult = firstExit.code

\* C5: the quit signal is only ever posted by the owner thread: an Exit call
\* on the owner thread posts it itself, an Exit call on any other thread
\* enqueues a callable through Synchronize and posts nothing, and the signal
\* is posted when that callable runs on the owner thread.
C5_QuitPostedByOwner ==
    /\ \A i \in 1..Len(quitPosts) : quitPosts[i].by = Owner
    /\ firstExit.by = Owner => QuitClosures = {} /\ ExitPosts # {}
    /\ firstExit.by \in Workers =>
          /\ Cardinality(QuitClosures) = 1
          /\ \A i \in QuitClosures :
                /\ submitted[i].by = firstExit.by
                /\ submitted[i].id \in RanIds <=> ExitPosts # {}

C5_Witness ==
    /\ firstExit.by \in Workers
    /\ ExitPosts # {}
    /\ \E i \in 1..Len(quitPosts) : quitPosts[i].origin = "repost"

\* C6: the nesting depth equals the number of loops the owner thread is in: a
\* loop entered at depth k runs at depth k+1, and the depth is k again when it
\* has returned, whether by its predicate, by the quit signal or by a fault.
C6_DepthMatchesNesting ==
    /\ activeMessageLoops = Len(stack)
    /\ \A i \in 1..Len(stack) : stack[i].entryDepth = i - 1

C6_Witness ==
    /\ activeMessageLoops = 0 /\ ~crashed
    /\ \E m \in Modals : forms[m].how = "quit"
    /\ \E m \in Modals : forms[m].how = "fault"

C8_NestedRunFaults ==
    /\ [](\A i \in 1..Len(stack) : stack[i].kind = "main" => i = 1)
    /\ [][nestedRunFaults' # nestedRunFaults =>
            /\ activeMessageLoops # 0
            /\ activeMessageLoops' = activeMessageLoops
            /\ stack' = stack
            /\ runState' = runState
            /\ postedQ' = postedQ /\ ran' = ran]_vars

C8_Witness ==
    /\ nestedRunFaults > 0
    /\ ~crashed
    /\ Len(stack) = 2

\* Frames of modal loops that have an owner window.
OwnedFrames == { i \in 1..Len(stack) : stack[i].kind = "modal" /\ stack[i].owner # NoWindow }

ModalReturns == stack # <<>> /\ stack' = Pop(stack) /\ Top.kind = "modal"

\* C9, as claimed: the owner window of a modal is disabled for as long as the
\* modal loop runs and is enabled again when RunModal returns.
C9_OwnerReenabled ==
    /\ [](\A i \in OwnedFrames : ~enabled[stack[i].owner])
    /\ [][(ModalReturns /\ Top.owner # NoWindow) => enabled'[Top.owner]]_vars

\* C9, amended: the owner window is disabled for as long as the modal loop
\* runs, and when RunModal returns, on every path, it is enabled again if and
\* only if it was enabled when RunModal was entered.
C9_OwnerRestored ==
    /\ [](\A i \in OwnedFrames : ~enabled[stack[i].owner])
    /\ [][(ModalReturns /\ Top.owner # NoWindow) =>
            enabled'[Top.owner] = Top.wasEnabled]_vars

C9_Witness ==
    /\ stack = <<>>
    /\ \E m \in Modals : /\ forms[m].phase = "returned"
                         /\ forms[m].owner # NoWindow
                         /\ forms[m].how \in {"quit", "fault"}
                         /\ enabled[forms[m].owner]
    /\ \E m \in Modals : forms[m].phase = "returned" /\ forms[m].how = "predicate"
                         /\ forms[m].owner # NoWindow

\* C10: a modal loop that observes the quit signal returns without
\* dispatching anything and leaves the signal pending again with the same
\* code; the signal stays pending for as long as a loop remains active, and
\* every loop the owner thread is in comes to an end.
C10_ModalRepostsQuit ==
    /\ [][(ModalReturns /\ forms'[Top.modal].how = "quit") =>
            /\ quitPending /\ quitPending'
            /\ quitCode' = quitCode
            /\ postedQ' = postedQ /\ ran' = ran]_vars
    /\ []((stack # <<>> /\ \E m \in Modals : forms[m].how = "quit") => quitPending)
    /\ (\E m \in Modals : forms[m].how = "quit") ~> (stack = <<>> \/ crashed)

C10_Witness ==
    /\ Cardinality({ m \in Modals : forms[m].how = "quit" }) = 2
    /\ runState = "returned"
    /\ runResult = IntFromWParam(ToInt32(firstExit.code))

\* The offers of the message pumped last, by level.
OffersAt(level) == { i \in 1..Len(lastMsg.offers) : lastMsg.offers[i].level = level }

IsPrefix(a, b) == Len(a) <= Len(b) /\ \A i \in 1..Len(a) : a[i] = b[i]

\* C11: a message pumped by the top-level loop is offered to the global
\* hooks first, in the order of their registration; a per-window hook or the
\* target's own hook is offered it only after every global hook has been; a
\* global hook, once added, stays registered in its place.
C11_GlobalHooksFirst ==
    /\ [](LET n == Cardinality(OffersAt("global"))
          IN  /\ OffersAt("global") = 1..n
              /\ n <= Len(lastMsg.globals)
              /\ \A i \in 1..n : lastMsg.offers[i].hook = lastMsg.globals[i]
              /\ Len(lastMsg.offers) > n => n = Len(lastMsg.globals)
              /\ IsPrefix(lastMsg.globals, globalPreTranslateHandlers))
    /\ [][IsPrefix(globalPreTranslateHandlers, globalPreTranslateHandlers')]_vars

C11_Witness ==
    /\ Len(lastMsg.globals) = 2
    /\ lastMsg.globals[1] # lastMsg.globals[2]
    /\ OffersAt("global") = {1, 2}
    /\ OffersAt("perwindow") # {}
    /\ OffersAt("target") # {}

\* C12, as claimed: of the per-window hooks only the one registered under the
\* destination of the message is offered it.
C12_OnlyDestinationChain ==
    \A i \in OffersAt("perwindow") : lastMsg.offers[i].key = lastMsg.dest

\* C12, amended: a message that no global hook takes is offered to every
\* registered per-window hook, whatever window it is for, each at most once
\* and up to the first that takes it; only when none takes it, it is offered
\* to the hook of the window it is for, and to no other window's own hook.
C12_EveryPerWindowHook ==
    LET o == lastMsg.offers
        pw == OffersAt("perwindow")
        tg == OffersAt("target")
    IN  /\ \A i \in pw : o[i].key \in lastMsg.keys
        /\ \A i, j \in pw : o[i].key = o[j].key => i = j
        /\ \A i \in tg : o[i].key = lastMsg.dest /\ i = Len(o)
        /\ tg # {} => { o[i].key : i \in pw } = lastMsg.keys
        /\ (lastMsg.pumped /\ ~lastMsg.consumed) =>
              /\ { o[i].key : i \in pw } = lastMsg.keys
              /\ lastMsg.dest \in WindowsWithHook => tg # {}
        /\ \A i \in pw, j \in tg : i < j

C12_Witness ==
    /\ lastMsg.pumped /\ ~lastMsg.consumed
    /\ lastMsg.dest = "hA"
    /\ \E i \in OffersAt("perwindow") : lastMsg.offers[i].key = "hB"
    /\ OffersAt("target") # {}

\* C13: the boundary does nothing when the callback returns normally; when
\* the callback raises a fault, the fault value and the panicking stack are
\* raised again on a context of their own, and the context that ran the
\* callback stays blocked from then on: the callback never returns and the
\* fault does not go into the boundary's native caller.
C13_BoundaryRedirects ==
    /\ [](/\ cbState = "running" => redirected = <<>>
          /\ cbState = "blocked" =>
                /\ Len(redirected) = 1
                /\ redirected[1].inner \in Faults
                /\ cbStack # <<>> /\ cbStack[Len(cbStack)] \in Wrapped
                /\ IsPrefix(cbStack, redirected[1].stack)
          /\ nativeUnwound \cap Wrapped = {})
    /\ [][cbState = "blocked" => UNCHANGED cbVars]_vars
    /\ [][(cbReturns' # cbReturns) => (redirected' = redirected /\ cbState' = cbState)]_vars

C13_Witness ==
    /\ cbState = "blocked"
    /\ cbReturns > 0
    /\ Len(redirected[1].stack) = 2
    /\ redirected[1].stack[2] \in Wrapped

\* C14, as claimed: no fault raised in a callback of the windowing system
\* goes into the native caller.
C14_EveryCallbackWrapped ==
    nativeUnwound = {}

\* C15: inside runSyncLayout the drain takes every result the map holds at that
\* moment as one batch and empties the map, and no completion function of the batch
\* is called while a result of the batch is still to be applied.
C15_BatchAppliedBeforeCallbacks ==
    /\ [](\A i \in 1..Len(layoutBatch) :
             layoutBatch[i] \in CompletedIds =>
                 \A j \in 1..Len(layoutBatch) : layoutBatch[j] \in AppliedIds("batch"))
    /\ [](layoutPhase = "complete" =>
             \A j \in 1..Len(layoutBatch) : layoutBatch[j] \in AppliedIds("batch"))
    /\ [][ (layoutPhase = "idle" /\ layoutPhase' = "apply") =>
               /\ {layoutBatch'[i] : i \in 1..Len(layoutBatch')} =
                      {layoutResultsByForm[f] : f \in Stored}
               /\ Len(layoutBatch') = Cardinality(Stored)
               /\ \A f \in LForms : layoutResultsByForm'[f] = 0 ]_vars

\* A batch of two results is applied and its first completion function has run.
C15_Witness ==
    /\ Len(layoutBatch) = 2
    /\ layoutPhase = "complete"
    /\ layoutIdx = 2
    /\ layoutBatch[1] \in CompletedIds

\* Nothing of the layout path is under way: no result waits to be announced, no
\* syncLayoutMsg waits in the queue and runSyncLayout is not running.
LayoutQuiet == layoutMsgs = 0 /\ layoutPosting = {} /\ layoutPhase = "idle"

TimesApplied(id) == Cardinality({i \in 1..Len(appliedLog) : appliedLog[i].id = id})

TimesCompleted(id) == Cardinality({i \in 1..Len(completedLog) : completedLog[i] = id})

\* C16, as claimed: every result handed to synchronizeLayout is applied by the
\* owner thread exactly once: never twice, and, once the layout path is quiet, none
\* is lost.
C16_EveryResultConsumedOnce ==
    \A id \in handed :
        /\ TimesApplied(id) <= 1
        /\ LayoutQuiet => TimesApplied(id) = 1

\* C16, amended: no result is applied twice and only results handed over are
\* applied; a result is lost exactly when a newer result of the same form was
\* handed over before the owner thread drained the map: such a result is never
\* applied and its completion functions are never called, every other result is,
\* once the layout path is quiet, applied once and completed once.
C16_ConsumedOnceUnlessReplaced ==
    /\ AppliedIds("batch") \subseteq handed
    /\ replacedResults \subseteq handed
    /\ \A id \in handed :
        /\ TimesApplied(id) <= 1
        /\ TimesCompleted(id) <= 1
        /\ id \in replacedResults => TimesApplied(id) = 0 /\ TimesCompleted(id) = 0
        /\ (LayoutQuiet /\ id \notin replacedResults) =>
               TimesApplied(id) = 1 /\ TimesCompleted(id) = 1
    /\ \A f \in LForms :
           LET mine == {id \in handed : lrequests[id].form = f}
           IN  \A id \in mine : id \in replacedResults => \E later \in mine : later > id

\* A result was replaced in the map and the result that replaced it was consumed.
C16_Witness ==
    /\ LayoutQuiet
    /\ \E id \in replacedResults :
           \E later \in handed \ replacedResults :
               /\ later > id
               /\ lrequests[later].form = lrequests[id].form
               /\ TimesApplied(later) = 1

\* The newest request made for a form.
LatestRequest(f) ==
    LET mine == {id \in 1..Len(lrequests) : lrequests[id].form = f}
    IN  CHOOSE id \in mine : \A other \in mine : other <= id

\* The requests whose results the performer gave out, to the Bridge or at the rendezvous.
Produced == handed \cup AppliedIds("sync")

\* C17: of the requests made for a form before the performer picks one up, only
\* the last is computed: the performer picks up the newest request of the form, a
\* request replaced before pickup is never computed and yields no result, and a
\* computed request yields one result at most.
C17_OnlyLatestComputed ==
    /\ [](/\ pickedUp \cap supersededPending = {}
          /\ Produced \cap supersededPending = {}
          /\ Produced \subseteq pickedUp
          /\ handed \cap AppliedIds("sync") = {}
          /\ \A id \in Produced : TimesApplied(id) <= 1
          /\ \A f \in LForms : lpPending[f] # 0 => lpPending[f] = LatestRequest(f))
    /\ [][\A f \in LForms :
             (lpState[f] = "Requested" /\ lpState'[f] = "Computing") =>
                 /\ lpWork'[f] = LatestRequest(f)
                 /\ pickedUp' = pickedUp \cup {LatestRequest(f)}]_vars

\* Two requests of a form were made before pickup; the second was computed and
\* its result applied, the first was not computed.
C17_Witness ==
    \E id \in supersededPending :
        /\ lrequests[id + 1].form = lrequests[id].form
        /\ id + 1 \in pickedUp
        /\ TimesApplied(id + 1) = 1
        /\ id \notin pickedUp

\* C18, as claimed: the result the owner thread receives at the rendezvous and
\* applies is the result of the request its size-change handler has just made; the
\* owner thread waits only in the sizing loop and only while the performer has
\* something to deliver.
C18_HandlerResultDeliveredSynchronously ==
    /\ \A i \in 1..Len(appliedLog) :
           appliedLog[i].how = "sync" =>
               /\ appliedLog[i].id = appliedLog[i].for
               /\ lrequests[appliedLog[i].id].sizing
    /\ ownerWaits # NoWait =>
           /\ inSizingLoop[ownerWaits.form]
           /\ lpState[ownerWaits.form] \in {"Requested", "Computing", "Delivering"}

Holders == {c \in buttons : ~usesPredefinedID[c] /\ ctrlID[c] # 0}

\* C20: the allocator never gives out an id that is still held: an id newly set on
\* a button was free just before and is above the predefined range; so the ids
\* that the buttons of a form hold from the allocator are allocated, differ from
\* one another and differ from every predefined id in use.
C20_AllocatedIdsDistinct ==
    /\ [](\A c \in Holders :
             /\ ctrlID[c] \in allocated
             /\ ctrlID[c] > maxPredefinedCtrlID
             /\ \A d \in buttons \ {c} : ctrlID[d] # ctrlID[c])
    /\ [](0..maxPredefinedCtrlID \subseteq allocated)
    /\ [][\A c \in Controls :
             (c \in Holders' /\ ctrlID'[c] # ctrlID[c]) =>
                 /\ ctrlID'[c] \notin allocated
                 /\ ctrlID'[c] \in allocated'
                 /\ \A d \in Holders : ctrlID[d] # ctrlID'[c]]_vars

\* Two buttons hold ids of the allocator next to a button with a predefined id,
\* and the allocator has no id left.
C20_Witness ==
    /\ Cardinality(Holders) = 2
    /\ \E c \in buttons : usesPredefinedID[c]
    /\ FreeIds = {}
    /\ ~ctrlPanic

\* C21: the allocator reports exhaustion exactly when every id of its capacity is
\* held, and the call changes nothing; short of a fault an allocation is always
\* possible to attempt and, while an id is free, succeeds; an id given back is free
\* again and each free id can be the next one given out.
C21_ExhaustionAndReuse ==
    /\ [](ctrlPanic => FreeIds = {})
    /\ [][(ctrlPanic' /\ ~ctrlPanic) =>
             /\ Cardinality(allocated) = IdCapacity
             /\ allocated' = allocated /\ ctrlID' = ctrlID]_vars
    /\ []((~ctrlPanic /\ ~freeFault) =>
             \A c \in buttons :
                 /\ ENABLED SetCtrlID(c)
                 /\ ~usesPredefinedID[c] =>
                        \A id \in FreeIds : ENABLED (SetCtrlID(c) /\ ctrlID'[c] = id /\ ~ctrlPanic'))
    /\ [][\A id \in Ids : (id \in allocated /\ id \notin allocated') =>
             id \in FreeIds' /\ ~ctrlPanic' /\ ~freeFault']_vars

\* Every id of the capacity is allocated, one of them to a button that took a
\* second id since, and the allocation after that has failed.
C21_Witness ==
    /\ ctrlPanic
    /\ Cardinality(allocated) = IdCapacity
    /\ Cardinality(Holders) = 1

\* C22: the predefined ids stay out of the allocator's hands whatever is allocated
\* and freed: they are held from the start and for good, no button gets one from
\* the allocator, freeCtrlID leaves the allocator as it is for each of them, and
\* giving back any other id that is not allocated is a fault that changes nothing.
C22_PredefinedRangeReserved ==
    /\ [](/\ 0..maxPredefinedCtrlID \subseteq allocated
          /\ \A id \in 0..maxPredefinedCtrlID : FreeCtrlID(id) = allocated
          /\ \A c \in buttons : ~usesPredefinedID[c] => ctrlID[c] \notin 1..maxPredefinedCtrlID)
    /\ [][\A id \in 0..IdCapacity :
             FreeCtrlIDDirect(id) =>
                 /\ id <= maxPredefinedCtrlID => UNCHANGED idVars
                 /\ freeFault' = (id > maxPredefinedCtrlID /\ id \notin allocated)
                 /\ freeFault' => allocated' = allocated]_vars

\* An id that was not allocated was given back, while a button holds an id.
C22_Witness ==
    /\ freeFault
    /\ Holders # {}

\* C23: over any sequence of InitApp calls the initialization body runs at most
\* once, every call returns the singleton or an initialization error, and a call
\* returns the singleton only when the initialization has succeeded.
C23_SingletonOnlyWhenInitialized ==
    (appLog = <<>> /\ \A i \in 1..Len(initLog) : initLog[i].by = Owner) =>
        /\ initBodyRuns <= 1
        /\ \A i \in 1..Len(initLog) :
              /\ initLog[i].ret \in {"singleton", "error"}
              /\ initLog[i].ret = "singleton" => initLog[i].state \in {"ready", "complete"}

\* C24: App panics on every call made before InitApp has been called, and returns
\* the singleton only after the initialization has succeeded.
C24_AppPanicsUntilInitialized ==
    \A i \in 1..Len(appLog) :
        /\ appLog[i].inits = 0 => appLog[i].res = "panic"
        /\ appLog[i].res = "singleton" => appLog[i].state \in {"ready", "complete"}

\* finalInitOutsideOnce has run: Application.init succeeded and the InitApp call
\* that ran it went on to the registered functions.
FinalInitRan == appState \in {"complete", "notooltip"}

\* C29 as stated: each InitApp call runs every function registered before it.
C29_EveryInitAppRunsRegistered ==
    \A i \in 1..Len(initLog) : initLog[i].by = Owner => walkInitRan = appended

\* C29: the functions registered through AppendToWalkInit run exactly once each,
\* in registration order, in the InitApp call whose Application.init succeeds, and
\* in no other; a registration is accepted only while appOnce.init is 0 and no
\* thread is inside the once-only body; a function whose registration panicked
\* is never run.
C29_RegisteredRunOnceInOrder ==
    /\ [](FinalInitRan => walkInitRan = appended)
    /\ [](~FinalInitRan => walkInitRan = <<>>)
    /\ [](\A i, j \in 1..Len(walkInitRan) : i # j => walkInitRan[i] # walkInitRan[j])
    /\ [](rejected \cap (RangeOf(walkInitRan) \cup RangeOf(appended)) = {})
    /\ [][appended' # appended => onceInit = 0 /\ onceInit' = 0 /\ ~OnceLocked]_vars
    /\ [][rejected' # rejected => onceInit = 1 /\ appended' = appended]_vars
    /\ [][walkInitRan' # walkInitRan => appState = "ready" /\ initBodyRuns = 1]_vars

\* Two registered functions have run in the order of their registration and a
\* third, passed after the initialization, was refused.
C29_Witness ==
    /\ appState = "complete"
    /\ walkInitRan = <<"f2", "f1">>
    /\ rejected = {"f3"}

ReservedCodes == {syncFuncMsg, syncLayoutMsg, cloakChangeMsg}

\* C28: AllocMessage gives out pairwise different codes, each at least WM_APP and
\* below firstRegisteredMessage (every code given out is app.nextMsg, which then
\* grows by one, and every earlier code is below app.nextMsg); once the range is
\* used up every call returns WM_NULL with ErrNoMoreMessages and changes nothing;
\* the three codes reserved by the initialization differ from each other and from
\* every code given out later.
C28_MessageCodesDistinctAndBounded ==
    /\ [](nextMsg <= firstRegisteredMessage)
    /\ [](nextMsg # 0 =>
            /\ Cardinality(ReservedCodes) = 3
            /\ \A m \in ReservedCodes : m >= WM_APP /\ m < nextMsg)
    /\ []((lastAlloc # NoAlloc /\ ~lastAlloc.err) =>
            /\ lastAlloc.code >= WM_APP
            /\ lastAlloc.code < firstRegisteredMessage
            /\ lastAlloc.code < nextMsg
            /\ lastAlloc.code \notin ReservedCodes)
    /\ [](lastAlloc.err => lastAlloc.code = WM_NULL /\ nextMsg >= firstRegisteredMessage)
    /\ [][(lastAlloc' # lastAlloc /\ ~lastAlloc'.err) =>
            /\ lastAlloc'.code = nextMsg
            /\ nextMsg' = nextMsg + 1
            /\ lastAlloc'.code \notin ReservedCodes
            /\ lastAlloc # NoAlloc => lastAlloc'.code > lastAlloc.code]_vars
    /\ [][nextMsg >= firstRegisteredMessage =>
            /\ nextMsg' = nextMsg
            /\ ReservedCodes' = ReservedCodes
            /\ lastAlloc' # lastAlloc => lastAlloc' = [code |-> WM_NULL, err |-> TRUE]]_vars
    /\ [](nextMsg >= firstRegisteredMessage =>
            AllocResult(nextMsg) = [code |-> WM_NULL, err |-> TRUE, next |-> nextMsg])

\* The range has been used up and a call has returned WM_NULL with the error.
C28_Witness ==
    /\ lastAlloc = [code |-> WM_NULL, err |-> TRUE]
    /\ nextMsg = firstRegisteredMessage
    /\ syncFuncMsg = WM_APP

\* The loop, hook and allocator state the owner-thread-only entry points work on.
OwnerOnlyState == <<progVars, hookVars, msgVars, runMsgFilters>>

\* C30: a call of an owner-thread-only entry point (Run, RunModal, AllocMessage,
\* AddGlobalPreTranslateHandler, AddPreTranslateHandlerForHWND,
\* DeletePreTranslateHandlerForHWND, EnableMessageFilterHooks) made by a thread
\* other than the owner thread has no outcome but the thread-assertion fault, with
\* the loop, hook and allocator state left as it was; and the only steps that
\* raise the fault are such calls.
C30_OtherThreadFaultsBeforeState ==
    /\ [](\A t \in Workers, entry \in OwnerOnlyEntries :
            ~ENABLED (/\ EntryCall(t, entry)
                      /\ \/ OwnerOnlyState' # OwnerOnlyState
                         \/ uiFault' # [by |-> t, entry |-> entry]))
    /\ [][uiFault' # uiFault =>
            /\ OwnerOnlyState' = OwnerOnlyState
            /\ uiFault'.by \in Workers
            /\ uiFault'.entry \in OwnerOnlyEntries]_vars

\* A worker's AllocMessage call has faulted after the owner thread had started a
\* loop, installed hooks and allocated a message code.
C30_Witness ==
    /\ uiFault = [by |-> "t1", entry |-> "AllocMessage"]
    /\ runState # "notrun"
    /\ globalPreTranslateHandlers # <<>>
    /\ lastAlloc # NoAlloc
    /\ runMsgFilters

\* The Go calls whose function has been started.
Started == {i \in 1..MaxGoCalls : goCalls[i].pc \in {"running", "done"}}

\* C25: a Go call made after an Exit call has returned does not run its function.
C25_GoAfterExitNeverRuns ==
    \A i \in 1..MaxGoCalls : goCalls[i].late => i \notin Started

\* C26: Run does not return while a function started through Go is executing:
\* Run returns only with the counter of app.waitGroup at 0, a function that is
\* executing is counted, so every function that was started has returned when
\* Run returns; and no function is started once Run has returned.
C26_RunWaitsForGoFunctions ==
    /\ [](\A i \in 1..MaxGoCalls : goCalls[i].pc = "running" => waitGroup >= 1)
    /\ [](runState = "returned" => \A i \in 1..MaxGoCalls : goCalls[i].pc # "running")
    /\ [][(runState' = "returned" /\ runState # "returned") =>
            waitGroup = 0 /\ \A i \in Started : goCalls[i].pc = "done"]_vars
    /\ [][\A i \in 1..MaxGoCalls :
            (goCalls'[i].pc = "running" /\ goCalls[i].pc # "running") =>
                runState # "returned" /\ runState' # "returned"]_vars

\* Run is held in app.waitGroup.Wait() by a function that is still executing,
\* after the loop has quit.
C26_Witness ==
    /\ runState = "waiting"
    /\ waitGroup = 1
    /\ \E i \in 1..MaxGoCalls : goCalls[i].pc = "running"
    /\ \E i \in 1..MaxGoCalls : goCalls[i].pc = "skipped"

\* C27: once Exit has been called with the main loop running, Run returns in the
\* end (the functions started through Go returning once the context is
\* cancelled); the context is cancelled before the quit message is posted or
\* handed to Synchronize.
C27_RunReturnsAfterExit ==
    /\ (exiting /\ runState = "running") ~> (runState = "returned")
    /\ [][(quitPending' /\ ~quitPending) => ctxCancelled]_vars
    /\ [][(quitSync' /\ ~quitSync) => ctxCancelled]_vars
    /\ [][(ctxCancelled' /\ ~ctxCancelled) => exiting /\ ~quitPending /\ ~quitSync]_vars

\* Run has returned after two Exit calls, with a function that was started and
\* has returned.
C27_Witness ==
    /\ runState = "returned"
    /\ exitCalls = MaxExitCalls
    /\ exitPc[Owner] = "idle"
    /\ \E i \in 1..MaxGoCalls : goCalls[i].pc = "done"

\* The owner thread takes a sync-function wakeup off its queue.
ObservesWakeup ==
    /\ postedQ # <<>>
    /\ Head(postedQ).kind = "sync"
    /\ postedQ' = Tail(postedQ)

\* C31: each sync-function wakeup the owner thread observes pops and runs the
\* head of the queue and nothing else, the other callables staying queued in
\* their order; with an empty queue it changes nothing; and callables are run
\* by no other step.
C31_OneCallablePerWakeup ==
    /\ [][ObservesWakeup =>
            IF syncFuncs = <<>>
              THEN syncFuncs' = <<>> /\ ran' = ran
              ELSE /\ syncFuncs' = Tail(syncFuncs)
                   /\ ran' = Append(ran, [id |-> Head(syncFuncs).id, by |-> Owner])]_vars
    /\ [][ran' # ran => ObservesWakeup]_vars

\* A wakeup was observed with two callables queued: the first has run, the
\* second is still queued, and two wakeups are pending, one of them stray.
C31_Witness ==
    /\ Len(ran) = 1
    /\ Len(syncFuncs) = 1
    /\ postedQ = <<SyncMsg, SyncMsg>>
    /\ \A t \in Threads : inflight[t] = 0

\* The wakeups posted and not yet observed by the owner thread.
PendingWakeups == Cardinality({i \in 1..Len(postedQ) : postedQ[i].kind = "sync"})

\* C36: whenever no Synchronize call is between its enqueue and its post, at
\* least as many wakeups are pending in the owner thread's queue as callables are
\* queued; a call between the two steps accounts for one missing wakeup each.
C36_WakeupForEveryCallable ==
    /\ (\A t \in Threads : inflight[t] = 0) => PendingWakeups >= Len(syncFuncs)
    /\ PendingWakeups + Cardinality({t \in Threads : inflight[t] # 0}) >= Len(syncFuncs)

\* Two callables are queued, each with its wakeup pending, and no call is under
\* way.
C36_Witness ==
    /\ Len(syncFuncs) = 2
    /\ PendingWakeups = 2
    /\ \A t \in Threads : inflight[t] = 0
    /\ runState = "running"

\* The offers of the last pumped message whose hook answered handled.
HandledOffers == { i \in 1..Len(lastMsg.offers) : lastMsg.offers[i].hook \in lastMsg.handled }

ModalStep == modalPc' # modalPc

\* C33, as claimed: once modal.Running() is false RunModal handles no further
\* message and returns, without posting WM_QUIT again.
C33_NoEventOnceStopped ==
    /\ [](modalMsg.handled => modalMsg.running)
    /\ [](exitBy = "predicate" => quitReposts = 0)
    /\ (modalPc = "cond" /\ ~started) ~> (modalPc = "returned")

\* C33, amended: once RunModal finds modal.Running() false in its loop
\* condition it takes no further message from the queue, handles none, and
\* returns: no WM_QUIT is needed for that and none is posted, and the depth is
\* what it was before the call. A message that popMessage had already taken
\* when the same PeekMessage delivered the sent message that stopped the modal
\* is still handled, and it is the last one.
C33_StopsWhenTested ==
    /\ [][modalPc = "cond" /\ ~started /\ ModalStep =>
             modalPc' = "defers" /\ exitBy' = "predicate"]_vars
    /\ [][exitBy = "predicate" =>
             /\ curDest' = curDest /\ modalMsg' = modalMsg
             /\ quitReposts' = quitReposts /\ exitBy' = exitBy
             /\ modalPc' \in {"defers", "returned"}]_vars
    /\ [][modalPc = "got" /\ ~started /\ ModalStep =>
             modalPc' = "cond" /\ ~started']_vars
    /\ [](exitBy = "predicate" => quitReposts = 0)
    /\ [](modalPc = "returned" => activeMessageLoops = 0)
    /\ (modalPc = "cond" /\ ~started) ~> (modalPc = "returned")

\* RunModal has returned because the modal stopped running, with no WM_QUIT
\* in the queue, after handling a message while Running() was already false.
C33_Witness ==
    /\ modalPc = "returned" /\ exitBy = "predicate" /\ ~wmQuit
    /\ modalMsg.handled /\ ~modalMsg.running

\* A deferred call of RunModal runs.
DeferredStep(d) ==
    modalPc = "defers" /\ Head(deferred) = d /\ deferred' = Tail(deferred)

\* C37, as claimed: when RunModal disposes of the modal on its way out, the
\* owner window is not disabled.
C37_DisposedAfterOwnerEnabled ==
    [][DeferredStep("dispose") => ownerWnd # "disabled"]_vars

\* C37, amended: on every exit from RunModal its cleanup runs in one order:
\* the owner window is enabled again if RunModal found it enabled, then
\* modal.Dispose() is called, then the depth is decremented; RunModal's own
\* Dispose call never comes while an owner that RunModal disabled is still
\* disabled. An owner that was disabled already stays disabled throughout.
C37_CleanupOrder ==
    /\ [][DeferredStep("enable") =>
             /\ ownerWas = "enabled" /\ ownerWnd = "disabled"
             /\ Len(deferred) = 3]_vars
    /\ [][DeferredStep("dispose") =>
             /\ ownerWas = "enabled" => ownerWnd = "enabled"
             /\ ownerWas = "disabled" => ownerWnd = "disabled"
             /\ deferred = <<"dispose", "depth">>
             /\ activeMessageLoops = 1]_vars
    /\ [][DeferredStep("depth") =>
             /\ dlgWnd = "destroyed"
             /\ ownerWnd = ownerWas
             /\ activeMessageLoops' = 0 /\ modalPc' = "returned"]_vars
    /\ [][(modalPc \in {"cond", "pop", "got", "recheck"}) /\ modalPc' = "defers" =>
             deferred = RunModalDefers(ownerWas = "enabled")]_vars

\* RunModal is about to dispose of a modal whose window still exists, after
\* enabling the owner it had disabled.
C37_Witness ==
    /\ modalPc = "defers" /\ deferred = <<"dispose", "depth">>
    /\ ownerWas = "enabled" /\ ownerWnd = "enabled" /\ dlgWnd = "exists"

WaitPcs == {"wait", "waitSent", "waitPosted"}

\* C38: RunModal enters its blocking wait only from the test that follows a
\* poll that returned no message, and only if modal.Running() is true at that
\* test; when the predicate turned false while the poll delivered a sent
\* message, RunModal goes back to its loop condition and from there out of
\* the loop, without waiting.
C38_WaitsOnlyWhileRunning ==
    /\ [][modalPc \notin WaitPcs /\ modalPc' \in WaitPcs =>
             modalPc = "recheck" /\ started /\ modalPc' = "wait"]_vars
    /\ [][modalPc # "recheck" /\ modalPc' = "recheck" =>
             modalPc = "pop" /\ msgQ' = <<>> /\ ~wmQuit /\ curDest' = curDest]_vars
    /\ [][modalPc = "recheck" /\ ~started /\ ModalStep => modalPc' = "cond"]_vars
    /\ [][modalPc = "cond" /\ ~started /\ ModalStep => modalPc' = "defers"]_vars
    /\ [][modalPc = "defers" => modalPc' \in {"defers", "returned"}]_vars

\* The poll returned no message and delivered the WM_CLOSE that stopped the
\* modal.
C38_Witness ==
    modalPc = "recheck" /\ ~started /\ dlgWnd = "destroyed" /\ msgQ = <<>>

\* C39: the dialog is the handler registered under its window handle exactly
\* while its window exists and it has not entered mode; in particular no
\* handler is keyed by its handle once the window is destroyed, whether the
\* dialog was run modally or not.
C39_HandlerWhileNonModalWindow ==
    /\ perWindowPreTranslateHandlers[DlgHwnd] = DlgHook <=> (dlgWnd = "exists" /\ ~isModal)
    /\ dlgWnd = "destroyed" => perWindowPreTranslateHandlers[DlgHwnd] = NilHook

\* The window of a dialog that was run modally is destroyed.
C39_Witness ==
    /\ dlgWnd = "destroyed" /\ isModal /\ modalPc = "returned"
    /\ perWindowPreTranslateHandlers[DlgHwnd] = NilHook

\* C40: a message handled by the modal loop is offered to no pre-translate
\* hook but the modal's own OnPreTranslate, whatever global and per-window
\* handlers are registered and whatever window it is for, and the
\* OnPostDispatch called after it is dispatched is the modal's, not that of
\* the window the message is for.
C40_OnlyTheModalsHooks ==
    modalMsg.handled =>
        /\ \A i \in 1..Len(modalMsg.offers) : modalMsg.offers[i] = ModalOffer
        /\ Len(modalMsg.offers) <= 1
        /\ modalMsg.postDispatch = IF modalMsg.dispatched = 1 THEN <<DlgHwnd>> ELSE <<>>
        /\ modalMsg.dispatched = 1 => ~modalMsg.consumed /\ ~modalMsg.filtered

\* The modal loop dispatched a message for a window that has hooks of its
\* own while a global and a per-window handler were registered.
C40_Witness ==
    /\ modalMsg.handled /\ modalMsg.dest = "hA" /\ modalMsg.dispatched = 1
    /\ modalMsg.dest \in WindowsWithPostDispatch /\ modalMsg.dest \in WindowsWithHook
    /\ globalPreTranslateHandlers # <<>>
    /\ perWindowPreTranslateHandlers["hA"] # NilHook
    /\ modalMsg.postDispatch = <<DlgHwnd>>

\* The callables that were run, in the order in which they were run.
FuncsRan == SelectSeq(lkRan, LAMBDA i : lkItems[i].lock = "funcs")

\* C34: while the owner thread runs a callable taken by runSyncFunc, or applies
\* layout results or runs their completion functions in runSyncLayout, it
\* holds neither lock, except for the moment in which that code itself is
\* inside Synchronize or synchronizeLayout; a lock is held only by a thread
\* whose next step releases it, so a thread that calls either of the two,
\* the owner from inside a drain included, never waits for a lock that will
\* not be released; and what is queued is run by a wakeup later than the one
\* during which it was queued, the callables in the order of their queueing.
C34_NoLockHeldInAppCode ==
    /\ InAppCode /\ callPc[Owner].pc # "locked" => \A l \in Locks : mutex[l] # Owner
    /\ \A l \in Locks, t \in LockThreads :
          mutex[l] = t =>
              \/ callPc[t] = [pc |-> "locked", lock |-> l]
              \/ t = Owner /\ drainPc = [pc |-> "locked", lock |-> l]
                           /\ callPc[Owner].pc = "idle"
    /\ \A t \in LockThreads : callPc[t].pc = "want" => mutex[callPc[t].lock] # t
    /\ \A i \in 1..Len(lkRan) : lkItems[lkRan[i]].rAt > lkItems[lkRan[i]].qAt
    /\ \A i \in 1..Len(FuncsRan) : lkItems[FuncsRan[i]].pos = i

\* A callable and a layout result that the owner thread queued from inside a
\* drain have both been run.
C34_Witness ==
    /\ \E i \in 1..Len(lkRan) :
          lkItems[lkRan[i]].by = Owner /\ lkItems[lkRan[i]].lock = "funcs"
    /\ \E i \in 1..Len(lkRan) :
          lkItems[lkRan[i]].by = Owner /\ lkItems[lkRan[i]].lock = "layout"

\* C35, as claimed: for every position change (x, y) reported with
\* WM_WINDOWPOSCHANGED, the Point published to the handlers of Moved is
\* exactly (x, y).
C35_MovedCarriesNewPosition ==
    \A i \in 1..Len(windowPos) :
        ~windowPos[i].noMove =>
            movePublished[i] = <<[X |-> windowPos[i].x, Y |-> windowPos[i].y]>>

====
